---- MODULE Spec2Model ----
(***************************************************************************)
(* A model of the VEX execution engine (angr/engines/vex/engine.py):       *)
(* SimEngineVEX.lift with its block cache, and SimEngineVEX._process /     *)
(* _handle_irsb / _handle_statement, the statement walk over a lifted      *)
(* block.                                                                  *)
(***************************************************************************)
EXTENDS Integers, Sequences, FiniteSets, TLC

VARIABLES
    \* ---- SimEngineVEX fields (engine.py 43-52)
    use_cache, stop_points, support_selfmodifying_code, single_step,
    cache_size, default_opt_level, arch,
    block_cache, cache_hit_count, cache_miss_count,
    \* ---- the lifter's supply of block identities (one per pyvex.IRSB object)
    next_id,
    \* ---- what the last two API calls were given and returned (keyed: the call
    \* ---- passed the argument checks and looked its key up), and the keys
    \* ---- the cache was read or written under, in order, and the byte sources
    \* ---- (state and memory image arguments) the lift calls were given
    last, prev, calls, use_log, sources,
    \* ---- one process call: where it is (pc), the arguments it was given
    \* ---- (args), the local variables of _process and _handle_irsb (locals),
    \* ---- the working state (state), the SimSuccessors object (successors),
    \* ---- and what the call has done so far (trace)
    pc, args, locals, state, successors, trace,
    \* ---- the SimState objects there are (sim_states), the plugin instances
    \* ---- (plugin_objs) and the mutable lists and dicts they hold (cells),
    \* ---- each named by its index; the module's merge_counter; the SimState
    \* ---- method calls made so far (ops), and what the last one was given
    \* ---- and returned (ret)
    sim_states, plugin_objs, cells, merge_counter, ops, ret,
    \* ---- pyvex instruction parsing (lifting/util/instr_helper.py): the bit
    \* ---- stream instructions are decoded from (bitstrm: its bits and its
    \* ---- position), the arch's instruction_endness, and the Instruction
    \* ---- that was constructed last (instr): its bin_format, the stream
    \* ---- position it started at, what parse raised, its data and rawbits
    bitstrm, instruction_endness, instr

engine_vars == << use_cache, stop_points, support_selfmodifying_code, single_step,
                  cache_size, default_opt_level, arch >>
cache_vars == << block_cache, cache_hit_count, cache_miss_count, next_id >>
call_vars == << last, prev, calls, use_log, sources >>
proc_vars == << pc, args, locals, state, successors, trace >>
heap_vars == << sim_states, plugin_objs, cells, merge_counter, ops, ret >>
parse_vars == << bitstrm, instruction_endness, instr >>

-----------------------------------------------------------------------------
(* Program constants *)

VEX_IRSB_MAX_SIZE == 400
VEX_IRSB_MAX_INST == 99

\* Python's None where an integer is expected
None == -1

Min(a, b) == IF a < b THEN a ELSE b
Max(a, b) == IF a > b THEN a ELSE b
MinOf(S) == CHOOSE x \in S : \A y \in S : x <= y
MaxOf(S) == CHOOSE x \in S : \A y \in S : x >= y

-----------------------------------------------------------------------------
(* Bounds of the model *)

\* the state's memory maps the addresses 0 .. MemTop-1
MemTop == 12
\* the static memory image (the backer) maps the addresses 0 .. ClemTop-1
ClemTop == 8
\* lift calls in one behaviour of SpecLift
MaxCalls == 2
\* lift and clear_cache calls in one behaviour of SpecCache
MaxCacheOps == 4

-----------------------------------------------------------------------------
(* The memory content: what the bytes at each address decode to.  Even     *)
(* addresses hold two-byte instructions, odd addresses one-byte ones.      *)
(* Addresses from 20 on are not memory: they name the bytes of a block     *)
(* that a caller lifted from elsewhere and hands to process.               *)

InsnLen(a) == IF a % 2 = 0 THEN 2 ELSE 1

InsnKind(a) ==
    CASE a = 2 -> "exit"
      [] a = 6 -> "store"
      [] a = 8 -> "exit"
      [] a = 10 -> "call"
      [] a = 20 -> "store"
      [] a = 24 -> "syscall"
      [] a = 28 -> "icall"
      [] OTHER -> "plain"

\* how far past its own address a store instruction writes: into the
\* instruction that follows it
StoreSpan(a) == InsnLen(a)
\* where a call instruction transfers control
CallTarget(a) == 0
\* the target of an indirect call: a symbolic address nothing constrains
UnconstrainedTarget == -2

-----------------------------------------------------------------------------
(* The external lifter, pyvex.IRSB(buff, mem_addr, arch, num_bytes,        *)
(* num_inst, bytes_offset, traceflags, opt_level).                         *)

\* the offsets of the instructions decoded from the bytes whose content is
\* that of image address img: at most `left` of them, within numBytes bytes,
\* ending at a control transfer
RECURSIVE InsnOffsets(_, _, _, _)
InsnOffsets(img, off, numBytes, left) ==
    IF left <= 0 \/ off + InsnLen(img + off) > numBytes THEN << >>
    ELSE IF InsnKind(img + off) \in {"call", "icall", "syscall"} THEN << off >>
    ELSE << off >> \o InsnOffsets(img, off + InsnLen(img + off), numBytes, left - 1)

StmtTag(kind) ==
    CASE kind = "exit" -> "Exit"
      [] kind = "store" -> "Store"
      [] kind = "call" -> "Put"
      [] kind = "icall" -> "Put"
      [] kind = "syscall" -> "Put"
      [] OTHER -> "WrTmp"

\* the statements of one instruction: its IMark and its effect
IMarkOf(img, base, off, delta) ==
    [tag |-> "IMark", addr |-> base + off, len |-> InsnLen(img + off),
     delta |-> delta, cond |-> 0, target |-> 0]

EffectOf(img, base, off, delta) ==
    [tag |-> StmtTag(InsnKind(img + off)), addr |-> base + off,
     len |-> 0, delta |-> delta,
     cond |-> IF InsnKind(img + off) = "exit" THEN img + off ELSE 0,
     target |-> IF InsnKind(img + off) = "store"
                THEN base + off + StoreSpan(img + off)
                ELSE IF InsnKind(img + off) = "exit" THEN base + delta
                ELSE 0]

IRSB(id, buff, mem_addr, num_bytes, num_inst, bytes_offset, opt_level) ==
    LET base == mem_addr - bytes_offset
        cap  == IF num_inst = None THEN VEX_IRSB_MAX_INST ELSE num_inst
        offs == InsnOffsets(buff.img, 0, num_bytes, cap)
        n    == Len(offs)
        size == IF n = 0 THEN 0 ELSE offs[n] + InsnLen(buff.img + offs[n])
        isInd  == n > 0 /\ InsnKind(buff.img + offs[n]) = "icall"
        isCall == isInd \/ (n > 0 /\ InsnKind(buff.img + offs[n]) = "call")
        isSys  == n > 0 /\ InsnKind(buff.img + offs[n]) = "syscall"
    IN  [id |-> id,
         addr |-> mem_addr,
         size |-> size,
         statements |->
            [i \in 1..(2 * n) |->
                IF i % 2 = 1 THEN IMarkOf(buff.img, base, offs[(i + 1) \div 2], bytes_offset)
                ELSE EffectOf(buff.img, base, offs[i \div 2], bytes_offset)],
         next |-> IF isInd THEN UnconstrainedTarget
                  ELSE IF isCall THEN CallTarget(offs[n]) ELSE mem_addr + size,
         jumpkind |-> IF n = 0 THEN "Ijk_NoDecode"
                      ELSE IF isCall THEN "Ijk_Call"
                      ELSE IF isSys THEN "Ijk_Sys_syscall" ELSE "Ijk_Boring",
         opt_level |-> opt_level]

\* a block without the identity of the object that holds it
Contents(irsb) ==
    [addr |-> irsb.addr, size |-> irsb.size, statements |-> irsb.statements,
     next |-> irsb.next, jumpkind |-> irsb.jumpkind, opt_level |-> irsb.opt_level]

NoBlock ==
    [id |-> 0, addr |-> 0, size |-> 0, statements |-> << >>, next |-> 0,
     jumpkind |-> "", opt_level |-> 0]

-----------------------------------------------------------------------------
(* The block cache, cachetools.LRUCache(maxsize): a sequence of            *)
(* <<key, value>> entries, the least recently used one first.              *)

CacheKeys(c) == { c[i].key : i \in 1..Len(c) }

\* `key in cache`: no effect on the order
CacheHas(c, k) == k \in CacheKeys(c)

CacheIndex(c, k) == CHOOSE i \in 1..Len(c) : c[i].key = k

CacheRemove(c, k) ==
    LET i == CacheIndex(c, k)
    IN  [j \in 1..(Len(c) - 1) |-> IF j < i THEN c[j] ELSE c[j + 1]]

\* `cache[key]`, which marks the entry as the most recently used
CacheValue(c, k) == c[CacheIndex(c, k)].val
CacheTouch(c, k) == Append(CacheRemove(c, k), [key |-> k, val |-> CacheValue(c, k)])

\* popitem() until the new entry fits: the least recently used entries go
RECURSIVE CacheEvict(_, _)
CacheEvict(c, maxsize) ==
    IF Len(c) + 1 > maxsize /\ Len(c) > 0 THEN CacheEvict(Tail(c), maxsize) ELSE c

\* `cache[key] = value`
CachePut(c, k, v, maxsize) ==
    IF CacheHas(c, k) THEN Append(CacheRemove(c, k), [key |-> k, val |-> v])
    ELSE Append(CacheEvict(c, maxsize), [key |-> k, val |-> v])

-----------------------------------------------------------------------------
(* SimEngineVEX._first_stoppoint *)

IsIMark(stmt) == stmt.tag = "IMark"

\* the loop of lines 602-611 from statement i on; first_imark says whether no
\* IMark has been seen yet
RECURSIVE StoppointFrom(_, _, _, _)
StoppointFrom(pts, stmts, i, first_imark) ==
    IF i > Len(stmts) THEN None
    ELSE IF ~IsIMark(stmts[i]) THEN StoppointFrom(pts, stmts, i + 1, first_imark)
    ELSE IF ~first_imark /\ (stmts[i].addr + stmts[i].delta) \in pts
    THEN stmts[i].addr + stmts[i].delta
    ELSE StoppointFrom(pts, stmts, i + 1, FALSE)

\* a scan that also passes over the second instruction of the block
FirstStoppoint_SkipsTwo(sp, irsb) ==
    IF sp.isNone THEN None ELSE StoppointFrom(sp.pts, irsb.statements, 3, TRUE)

FirstStoppoint(sp, irsb) ==
    IF sp.isNone THEN None ELSE StoppointFrom(sp.pts, irsb.statements, 1, TRUE)

-----------------------------------------------------------------------------
(* SimEngineVEX._load_bytes(addr, max_size, state, clemory).  st is the    *)
(* state argument: whether it is given, its instruction pointer, and what  *)
(* state.memory.permissions(addr) answers (a concrete value, a symbolic    *)
(* one, or an exception).  The result names the bytes (by the image        *)
(* address whose content they are), their count, and what was read.        *)

Writable(perms) == (perms.val \div 2) % 2 = 1

\* line 558-567: smc starts as the engine's flag and is then overwritten
\* from the page permissions whenever a state is given
LoadBytesSmc(flag, st) ==
    IF st.present
    THEN CASE st.perms.kind = "symbolic" -> TRUE
           [] st.perms.kind = "error" -> TRUE
           [] OTHER -> Writable(st.perms)
    ELSE flag

\* lines 581-586: the addresses from addr on that are in state.memory, up to
\* the first one that is not
RECURSIVE GoodAddrs(_, _, _)
GoodAddrs(addr, i, max_size) ==
    IF i < max_size /\ addr + i < MemTop THEN 1 + GoodAddrs(addr, i + 1, max_size)
    ELSE 0

LoadBytes(flag, addr, max_size, st, clemory) ==
    IF ~clemory /\ ~st.present
    THEN [ok |-> FALSE, img |-> 0, size |-> 0, readClemory |-> FALSE, readState |-> FALSE]
    ELSE
    LET smc == LoadBytesSmc(flag, st)
        \* clemory.read_bytes_c(addr): every byte of the backer from addr on,
        \* KeyError when addr is not backed
        tryClem == ~smc \/ ~st.present
        size1 == IF tryClem /\ addr < ClemTop THEN ClemTop - addr ELSE 0
        tryState == size1 = 0 /\ st.present
        size2 ==
            IF ~tryState THEN size1
            ELSE IF addr < MemTop /\ addr + max_size - 1 < MemTop THEN max_size
            ELSE GoodAddrs(addr, 0, max_size)
    IN  [ok |-> TRUE, img |-> addr, size |-> Min(max_size, size2),
         readClemory |-> tryClem, readState |-> tryState]

-----------------------------------------------------------------------------
(* SimEngineVEX.lift.  e is the engine (its configuration and its cache),  *)
(* a the arguments of the call.  The result is what the call returns or    *)
(* raises, the engine's cache and counters after it, and the calls it      *)
(* made to the external lifter.                                            *)

NoBytes == [given |-> FALSE, img |-> 0, len |-> 0]

\* thumb normalisation that keeps the low address bit
Normalise_KeepsLowBit(e, a) ==
    LET addr0 == IF a.addr = None THEN a.state.ip ELSE a.addr
        size  == IF a.size # None THEN Min(a.size, VEX_IRSB_MAX_SIZE)
                 ELSE VEX_IRSB_MAX_SIZE
        ninst == IF a.num_inst # None THEN Min(a.num_inst, VEX_IRSB_MAX_INST)
                 ELSE IF e.single_step THEN 1 ELSE None
        opt0  == IF a.opt_level # None THEN a.opt_level
                 ELSE IF a.state.present /\ a.state.optimize_ir THEN 1
                 ELSE e.default_opt_level
        opt   == IF e.support_selfmodifying_code /\ opt0 > 0 THEN 0 ELSE opt0
        th0   == IF a.thumb THEN 1 ELSE 0
        thumb == IF e.arch = "ARM" THEN (IF addr0 % 2 = 1 THEN 1 ELSE th0) ELSE 0
    IN  [addr |-> addr0, size |-> size, num_inst |-> ninst, thumb |-> thumb,
         opt_level |-> opt]

\* phase 1 and 2 (lines 449-481): the normalised address, size, instruction
\* cap, thumb flag and optimisation level
Normalise(e, a) ==
    LET addr0 == IF a.addr = None THEN a.state.ip ELSE a.addr
        size  == IF a.size # None THEN Min(a.size, VEX_IRSB_MAX_SIZE)
                 ELSE VEX_IRSB_MAX_SIZE
        ninst == IF a.num_inst # None THEN Min(a.num_inst, VEX_IRSB_MAX_INST)
                 ELSE IF e.single_step THEN 1 ELSE None
        opt0  == IF a.opt_level # None THEN a.opt_level
                 ELSE IF a.state.present /\ a.state.optimize_ir THEN 1
                 ELSE e.default_opt_level
        opt   == IF e.support_selfmodifying_code /\ opt0 > 0 THEN 0 ELSE opt0
        th0   == IF a.thumb THEN 1 ELSE 0
        thumb == IF e.arch = "ARM" THEN (IF addr0 % 2 = 1 THEN 1 ELSE th0) ELSE 0
        addr  == IF e.arch = "ARM" /\ thumb = 1 THEN addr0 - (addr0 % 2) ELSE addr0
    IN  [addr |-> addr, size |-> size, num_inst |-> ninst, thumb |-> thumb,
         opt_level |-> opt]

\* a cache key that leaves the size out
CacheKey_NoSize(a, n, size) ==
    [addr |-> n.addr, insn_bytes |-> a.insn_bytes, size |-> 0,
     num_inst |-> n.num_inst, thumb |-> n.thumb, opt_level |-> n.opt_level]

CacheKey(a, n, size) ==
    [addr |-> n.addr, insn_bytes |-> a.insn_bytes, size |-> size,
     num_inst |-> n.num_inst, thumb |-> n.thumb, opt_level |-> n.opt_level]

LifterArgs(img, n, size) ==
    [img |-> img, mem_addr |-> n.addr + n.thumb, num_bytes |-> size,
     num_inst |-> n.num_inst, bytes_offset |-> n.thumb, opt_level |-> n.opt_level]

Raise(e, err, c, hit, miss, uses) ==
    [ok |-> FALSE, err |-> err, irsb |-> NoBlock, cache |-> c, hit |-> hit,
     miss |-> miss, lifts |-> << >>, next_id |-> e.next_id,
     readClemory |-> FALSE, readState |-> FALSE, uses |-> uses]

Return(e, irsb, c, hit, miss, uses) ==
    [ok |-> TRUE, err |-> "", irsb |-> irsb, cache |-> c, hit |-> hit,
     miss |-> miss, lifts |-> << >>, next_id |-> e.next_id,
     readClemory |-> FALSE, readState |-> FALSE, uses |-> uses]

\* the lifted block stored under a key rebuilt from the size that was lifted
StoreKey_Rebuilt(key, a, n, size) == [key EXCEPT !.size = size]

\* line 530-531: the key the lifted block is stored under is the key of the
\* last cache lookup
StoreKey(key, a, n, size) == key

\* phase 4 and 5 (lines 503-532): get the bytes and call the lifter, once at
\* the requested size and once more at the size a stop point truncates to
LiftCold(e, a, n, size, key, c, hit, miss, uses) ==
    LET lb   == IF a.insn_bytes.given
                THEN [ok |-> TRUE, img |-> a.insn_bytes.img, size |-> a.insn_bytes.len,
                      readClemory |-> FALSE, readState |-> FALSE]
                ELSE LoadBytes(e.support_selfmodifying_code, n.addr, size, a.state, a.clemory)
    IN  IF ~lb.ok THEN Raise(e, "SimEngineError", c, hit, miss, uses)
        ELSE IF lb.size = 0
        THEN [Raise(e, "SimEngineError", c, hit, miss, uses) EXCEPT
                 !.readClemory = lb.readClemory, !.readState = lb.readState]
        ELSE
        LET args0 == LifterArgs(lb.img, n, lb.size)
            irsb0 == IRSB(e.next_id, [img |-> lb.img], args0.mem_addr, args0.num_bytes,
                          args0.num_inst, args0.bytes_offset, args0.opt_level)
            sp    == FirstStoppoint(e.stop_points, irsb0)
            args1 == LifterArgs(lb.img, n, sp - n.addr)
            irsb1 == IRSB(e.next_id + 1, [img |-> lb.img], args1.mem_addr, args1.num_bytes,
                          args1.num_inst, args1.bytes_offset, args1.opt_level)
            irsb  == IF sp = None THEN irsb0 ELSE irsb1
            size2 == IF sp = None THEN lb.size ELSE sp - n.addr
        IN  [ok |-> TRUE, err |-> "", irsb |-> irsb,
             cache |-> IF e.use_cache
                       THEN CachePut(c, StoreKey(key, a, n, size2), irsb, e.cache_size)
                       ELSE c,
             hit |-> hit, miss |-> miss,
             lifts |-> IF sp = None THEN << args0 >> ELSE << args0, args1 >>,
             next_id |-> IF sp = None THEN e.next_id + 1 ELSE e.next_id + 2,
             readClemory |-> lb.readClemory, readState |-> lb.readState,
             uses |-> IF e.use_cache THEN Append(uses, StoreKey(key, a, n, size2))
                      ELSE uses]

\* phase 0 (lines 437-442) and phase 3 (lines 483-501)
Lift(e, a) ==
    LET c == e.block_cache
        hit == e.cache_hit_count
        miss == e.cache_miss_count
    IN
    IF ~a.state.present /\ ~a.clemory /\ (~a.insn_bytes.given \/ a.insn_bytes.len = 0)
    THEN Raise(e, "ValueError", c, hit, miss, << >>)
    ELSE IF ~a.state.present /\ ~a.clemory /\ ~a.arch
    THEN Raise(e, "ValueError", c, hit, miss, << >>)
    ELSE IF a.addr = None /\ ~a.state.present
    THEN Raise(e, "ValueError", c, hit, miss, << >>)
    ELSE
    LET n   == Normalise(e, a)
        key == CacheKey(a, n, n.size)
    IN  IF e.use_cache /\ CacheHas(c, key)
        THEN LET irsb == CacheValue(c, key)
                 c1   == CacheTouch(c, key)
                 sp   == FirstStoppoint(e.stop_points, irsb)
                 key2 == CacheKey(a, n, sp - n.addr)
             IN  IF sp = None THEN Return(e, irsb, c1, hit + 1, miss, << key >>)
                 ELSE IF CacheHas(c1, key2)
                 THEN Return(e, CacheValue(c1, key2), CacheTouch(c1, key2), hit + 2, miss,
                             << key, key2 >>)
                 ELSE LiftCold(e, a, n, sp - n.addr, key2, c1, hit + 1, miss + 1, << key >>)
        ELSE LiftCold(e, a, n, n.size, key, c, hit, miss + 1, << >>)

\* clear_cache that forgets to reset the hit counter
ClearCache_KeepsHits(e) == [cache |-> << >>, hit |-> e.cache_hit_count, miss |-> 0]

\* SimEngineVEX.clear_cache
ClearCache(e) == [cache |-> << >>, hit |-> 0, miss |-> 0]

-----------------------------------------------------------------------------
(* The engine as the operators above read it *)

Eng ==
    [use_cache |-> use_cache, stop_points |-> stop_points,
     support_selfmodifying_code |-> support_selfmodifying_code,
     single_step |-> single_step, cache_size |-> cache_size,
     default_opt_level |-> default_opt_level, arch |-> arch,
     block_cache |-> block_cache, cache_hit_count |-> cache_hit_count,
     cache_miss_count |-> cache_miss_count, next_id |-> next_id]

-----------------------------------------------------------------------------
(* The arguments the lift calls are drawn from *)

Perms(kind, val) == [kind |-> kind, val |-> val]

\* a state at address 0 whose page is readable and executable, not writable
AState == [present |-> TRUE, ip |-> 0, perms |-> Perms("concrete", 5), optimize_ir |-> FALSE]
NoState == [present |-> FALSE, ip |-> 0, perms |-> Perms("concrete", 0), optimize_ir |-> FALSE]

Bytes(img, len) == [given |-> TRUE, img |-> img, len |-> len]

BaseCall ==
    [state |-> AState, clemory |-> FALSE, insn_bytes |-> NoBytes, arch |-> FALSE,
     addr |-> 0, size |-> None, num_inst |-> None, thumb |-> FALSE, opt_level |-> None]

LiftCalls ==
    { [BaseCall EXCEPT !.addr = ad, !.thumb = th] : ad \in {0, 1, 4}, th \in BOOLEAN }
    \cup { [BaseCall EXCEPT !.size = sz] : sz \in {4, 6, 401} }
    \cup { [BaseCall EXCEPT !.num_inst = k] : k \in {1, 2, 100} }
    \cup { [BaseCall EXCEPT !.opt_level = lv] : lv \in {0, 1} }
    \cup { [BaseCall EXCEPT !.state.perms = p] :
             p \in {Perms("symbolic", 0), Perms("error", 0), Perms("concrete", 7)} }
    \cup { [BaseCall EXCEPT !.state.optimize_ir = TRUE] }
    \cup { [BaseCall EXCEPT !.addr = ad] : ad \in {None, ClemTop, MemTop} }
    \cup { [BaseCall EXCEPT !.clemory = TRUE, !.state = st] : st \in {AState, NoState} }
    \cup { [BaseCall EXCEPT !.insn_bytes = Bytes(0, 6), !.state = NoState, !.arch = TRUE],
           [BaseCall EXCEPT !.insn_bytes = Bytes(8, VEX_IRSB_MAX_SIZE + 1),
                            !.state = NoState, !.arch = TRUE] }
    \cup { [BaseCall EXCEPT !.insn_bytes = Bytes(0, 6), !.size = 4] }
    \cup { [BaseCall EXCEPT !.state = NoState],
           [BaseCall EXCEPT !.state = NoState, !.insn_bytes = Bytes(0, 6)],
           [BaseCall EXCEPT !.state = NoState, !.clemory = TRUE, !.addr = None] }

CacheCalls ==
    { [BaseCall EXCEPT !.addr = ad, !.size = sz] : ad \in {0, 4}, sz \in {None, 4} }
    \cup { [BaseCall EXCEPT !.addr = MemTop] }

Stops(S) == [isNone |-> FALSE, pts |-> S]
NoStops == [isNone |-> TRUE, pts |-> {}]

NoCall == [op |-> "init", args |-> BaseCall, norm |-> Normalise(Eng, BaseCall),
           keyed |-> FALSE, ok |-> FALSE, err |-> "", irsb |-> NoBlock, lifts |-> << >>,
           readClemory |-> FALSE, readState |-> FALSE]

-----------------------------------------------------------------------------
(* The expressions a process call builds (claripy).  A guard is the        *)
(* condition of one Exit statement, a conjunction of negated Exit          *)
(* conditions (the empty one is true), or false.                           *)

claripy_true == [kind |-> "and_not", terms |-> << >>]
claripy_false == [kind |-> "false", terms |-> << >>]
\* s_stmt.guard of an Exit statement
GuardOf(stmt) == [kind |-> "cond", terms |-> << stmt.cond >>]
\* claripy.And(g, claripy.Not(s_stmt.guard))
AndNot(g, stmt) == [kind |-> "and_not", terms |-> Append(g.terms, stmt.cond)]

-----------------------------------------------------------------------------
(* The arguments the process calls are drawn from *)

\* the default of last_stmt
LAST_STMT_DEFAULT == 99999999

NoWhitelist == [isNone |-> TRUE, idx |-> {}]
Whitelist(S) == [isNone |-> FALSE, idx |-> S]

\* a state at address 0 whose page is also writable
WState == [AState EXCEPT !.perms = Perms("concrete", 7)]

\* a state at address 8, past the static image, on a writable page
WState8 == [WState EXCEPT !.ip = 8]

\* a block handed to process: the first two instructions at address 0
GivenBlock == IRSB(0, [img |-> 0], 0, 4, None, 0, 1)

\* a block handed to process that is one call through a register
IndirectCallBlock == IRSB(0, [img |-> 28], 0, 2, None, 0, 1)

\* a block handed to process that is one system call
SyscallBlock == IRSB(0, [img |-> 24], 0, 2, None, 0, 1)

\* a block handed to process whose first instruction writes into its second
StoringBlock == IRSB(0, [img |-> 20], 0, 6, None, 0, 1)

BaseProcess ==
    [state |-> AState, options |-> {}, irsb_given |-> FALSE, irsb |-> GivenBlock,
     skip_stmts |-> 0,
     last_stmt |-> LAST_STMT_DEFAULT, whitelist |-> NoWhitelist, insn_bytes |-> NoBytes,
     size |-> None, num_inst |-> None, thumb |-> FALSE, opt_level |-> None,
     inline |-> FALSE]

ProcessOptions ==
    { {}, {"IGNORE_EXIT_GUARDS"}, {"SUPER_FASTPATH"}, {"CALLLESS"}, {"DO_RET_EMULATION"},
      {"DO_RET_EMULATION", "TRUE_RET_EMULATION_GUARD"}, {"CALLLESS", "DO_RET_EMULATION"} }

ProcessCalls ==
    { [BaseProcess EXCEPT !.state = st, !.skip_stmts = sk, !.last_stmt = ls,
                          !.whitelist = wl, !.options = op] :
        st \in {AState, WState}, sk \in {0, 2}, ls \in {LAST_STMT_DEFAULT, 3, 7, 8},
        wl \in {NoWhitelist, Whitelist({}), Whitelist({1, 2, 3, 5}), Whitelist({0, 2})},
        op \in ProcessOptions }
    \cup { [BaseProcess EXCEPT !.state = WState8, !.last_stmt = ls, !.options = op] :
             ls \in {LAST_STMT_DEFAULT, 3}, op \in ProcessOptions }
    \cup { [BaseProcess EXCEPT !.last_stmt = None],
           [BaseProcess EXCEPT !.irsb_given = TRUE],
           [BaseProcess EXCEPT !.state = WState, !.whitelist = Whitelist({6, 7, 9})],
           [BaseProcess EXCEPT !.irsb_given = TRUE, !.irsb = SyscallBlock,
                               !.options = {"DO_RET_EMULATION"}],
           [BaseProcess EXCEPT !.irsb_given = TRUE, !.irsb = SyscallBlock,
                               !.options = {"CALLLESS", "DO_RET_EMULATION"}],
           [BaseProcess EXCEPT !.irsb_given = TRUE, !.irsb = IndirectCallBlock],
           [BaseProcess EXCEPT !.irsb_given = TRUE, !.irsb = IndirectCallBlock,
                               !.options = {"CALLLESS"}],
           [BaseProcess EXCEPT !.irsb_given = TRUE, !.irsb = IndirectCallBlock,
                               !.options = {"CALLLESS", "DO_RET_EMULATION"}],
           [BaseProcess EXCEPT !.irsb_given = TRUE, !.irsb = StoringBlock,
                               !.state = WState, !.size = 12, !.num_inst = 6],
           [BaseProcess EXCEPT !.size = 1],
           [BaseProcess EXCEPT !.state = WState, !.insn_bytes = Bytes(0, 12)],
           [BaseProcess EXCEPT !.state = WState, !.size = 10, !.num_inst = 5],
           [BaseProcess EXCEPT !.options = {"OPTIMIZE_IR"}],
           [BaseProcess EXCEPT !.options = {"OPTIMIZE_IR"}, !.inline = TRUE],
           [BaseProcess EXCEPT !.state = WState, !.insn_bytes = Bytes(0, 12),
                               !.inline = TRUE] }
    \cup { [BaseProcess EXCEPT !.state.perms = Perms("concrete", 3), !.inline = i,
                               !.options = {"STRICT_PAGE_ACCESS", "ENABLE_NX",
                                            "OPTIMIZE_IR"}] : i \in BOOLEAN }
    \cup { [BaseProcess EXCEPT !.state.perms = p,
                               !.options = {"STRICT_PAGE_ACCESS", "ENABLE_NX"}] :
             p \in {Perms("concrete", 5), Perms("concrete", 3), Perms("error", 0)} }

NoLocals ==
    [addr |-> 0, size |-> None, num_inst |-> None, irsb |-> NoBlock, has_irsb |-> FALSE,
     skip_stmts |-> 0, has_default_exit |-> FALSE, stmt_idx |-> 0, insn_addrs |-> << >>,
     err |-> ""]

NoScratch ==
    [guard |-> claripy_true, ins_addr |-> None, num_insns |-> 0, dirty_addrs |-> {},
     stmt_idx |-> None]

\* the working state: its options, its scratch area, the constraints added to it
WorkState(options) == [options |-> options, scratch |-> NoScratch, constraints |-> << >>]

\* SimSuccessors(addr, ...) as process hands it to _process
NewSuccessors(a) ==
    [addr |-> a, processed |-> FALSE, irsb_size |-> None, all_successors |-> << >>,
     successors |-> << >>, flat_successors |-> << >>, unsat_successors |-> << >>,
     unconstrained_successors |-> << >>]

NoTrace ==
    [pass |-> << >>, filtered |-> FALSE, exits |-> << >>, relifts |-> 0, events |-> << >>]

\* a call of state._inspect: the event, BP_BEFORE or BP_AFTER, and the address
\* or statement index it was given (None when it was given none)
Inspect(event, when, what) == [event |-> event, when |-> when, what |-> what]

\* what a SimState method call was given and what it returned
NoRet ==
    [op |-> "", recv |-> 0, name |-> "", others |-> << >>, err |-> "", value |-> 0,
     changed |-> FALSE, conditions |-> << >>]

\* no SimState object has been made
InitNoStates ==
    /\ sim_states = << >>
    /\ plugin_objs = << >>
    /\ cells = << >>
    /\ merge_counter = 0
    /\ ops = 0
    /\ ret = NoRet

\* no bit stream is being decoded
NoInstruction == [bin_format |-> << >>, pos |-> 0, err |-> "", data |-> << >>, rawbits |-> << >>]

InitNoStream ==
    /\ bitstrm = [bits |-> << >>, pos |-> 0]
    /\ instruction_endness = "Iend_BE"
    /\ instr = NoInstruction

InitProcess ==
    /\ pc = "idle"
    /\ args = BaseProcess
    /\ locals = NoLocals
    /\ state = WorkState({})
    /\ successors = NewSuccessors(0)
    /\ trace = NoTrace

-----------------------------------------------------------------------------
(* Construction (SimEngineVEX.__init__, _initialize_block_cache) *)

InitCache ==
    /\ block_cache = << >>
    /\ cache_hit_count = 0
    /\ cache_miss_count = 0
    /\ next_id = 1
    /\ calls = 0
    /\ use_log = << >>
    /\ sources = {}
    /\ last = NoCall
    /\ prev = NoCall

InitLift ==
    /\ use_cache \in BOOLEAN
    /\ \E sa \in { <<NoStops, "X86">>, <<NoStops, "ARM">>, <<Stops({4}), "X86">>,
                   <<Stops({5}), "ARM">>, <<Stops({2, 6}), "X86">> } :
          stop_points = sa[1] /\ arch = sa[2]
    /\ \E f \in { <<FALSE, FALSE, 1>>, <<TRUE, FALSE, 1>>, <<FALSE, TRUE, 0>> } :
          /\ support_selfmodifying_code = f[1]
          /\ single_step = f[2]
          /\ default_opt_level = f[3]
    /\ cache_size = 2
    /\ InitCache
    /\ InitProcess
    /\ InitNoStream
    /\ InitNoStates

InitCacheSpec ==
    /\ use_cache = TRUE
    /\ stop_points \in { NoStops, Stops({4}) }
    /\ arch = "X86"
    /\ support_selfmodifying_code = FALSE
    /\ single_step = FALSE
    /\ default_opt_level = 1
    /\ cache_size \in {1, 2}
    /\ InitCache
    /\ InitProcess
    /\ InitNoStream
    /\ InitNoStates

-----------------------------------------------------------------------------
(* The API calls *)

\* the arguments that decide where a call's bytes come from
SourceOf(a) == [state |-> a.state, clemory |-> a.clemory]

\* engine.lift(**a)
DoLift(a) ==
    \E r \in {Lift(Eng, a)} :
        /\ block_cache' = r.cache
        /\ cache_hit_count' = r.hit
        /\ cache_miss_count' = r.miss
        /\ next_id' = r.next_id
        /\ use_log' = use_log \o r.uses
        /\ sources' = sources \cup {SourceOf(a)}
        /\ prev' = last
        /\ last' = [op |-> "lift", args |-> a, norm |-> Normalise(Eng, a),
                    keyed |-> r.err # "ValueError", ok |-> r.ok, err |-> r.err, irsb |-> r.irsb, lifts |-> r.lifts,
                    readClemory |-> r.readClemory, readState |-> r.readState]
        /\ calls' = calls + 1
        /\ UNCHANGED << heap_vars, engine_vars, parse_vars >>

\* engine.clear_cache()
DoClearCache ==
    LET r == ClearCache(Eng)
    IN  /\ block_cache' = r.cache
        /\ cache_hit_count' = r.hit
        /\ cache_miss_count' = r.miss
        /\ use_log' = << >>
        /\ prev' = last
        /\ last' = [NoCall EXCEPT !.op = "clear"]
        /\ calls' = calls + 1
        /\ UNCHANGED << heap_vars, engine_vars, parse_vars, next_id, sources >>

vars == << engine_vars, cache_vars, call_vars, proc_vars, heap_vars, parse_vars >>

LiftStep == \E a \in LiftCalls : calls < MaxCalls /\ DoLift(a) /\ UNCHANGED proc_vars
CacheLiftStep ==
    \E a \in CacheCalls : calls < MaxCacheOps /\ DoLift(a) /\ UNCHANGED proc_vars
CacheClearStep == calls < MaxCacheOps /\ DoClearCache /\ UNCHANGED proc_vars

NextLift == LiftStep
NextCache == CacheLiftStep \/ CacheClearStep

SpecLift == InitLift /\ [][NextLift]_vars
SpecCache == InitCacheSpec /\ [][NextCache]_vars

-----------------------------------------------------------------------------
(* SimSuccessors.add_successor and is_empty *)

Successor(id, target, guard, jumpkind, exit_stmt_idx, is_default, exit_ins_addr) ==
    [id |-> id, target |-> target, guard |-> guard, jumpkind |-> jumpkind,
     exit_stmt_idx |-> exit_stmt_idx, is_default |-> is_default,
     exit_ins_addr |-> exit_ins_addr,
     \* the successor whose state this one's state is a copy of (0: the working
     \* state), and how far its stack pointer is above the working state's
     copy_of |-> 0, sp |-> 0]

\* the candidate joins all_successors and, by the satisfiability of its guard,
\* the flat or the unsatisfiable list
Submit(succ, s) ==
    LET unsat == s.guard.kind = "false"
        unconstrained == ~unsat /\ s.target = UnconstrainedTarget
    IN  [succ EXCEPT
            !.all_successors = Append(@, s),
            !.unsat_successors = IF unsat THEN Append(@, s) ELSE @,
            !.unconstrained_successors = IF unconstrained THEN Append(@, s) ELSE @,
            !.successors = IF unsat \/ unconstrained THEN @ ELSE Append(@, s),
            !.flat_successors = IF unsat \/ unconstrained THEN @ ELSE Append(@, s)]

AddSuccessor(succ, target, guard, jumpkind, exit_stmt_idx, is_default, exit_ins_addr) ==
    Submit(succ, Successor(Len(succ.all_successors) + 1, target, guard, jumpkind,
                           exit_stmt_idx, is_default, exit_ins_addr))

IsEmpty(succ) ==
    /\ succ.all_successors = << >>
    /\ succ.flat_successors = << >>
    /\ succ.unsat_successors = << >>
    /\ succ.unconstrained_successors = << >>

\* the working state itself, put on a list of successors
StateItself(st) == Successor(0, None, st.scratch.guard, "", None, FALSE, st.scratch.ins_addr)

-----------------------------------------------------------------------------
(* SimEngineVEX._process (lines 109-172) *)

\* process(state, **p): lines 110-117
ProcessBegin(p) ==
    /\ pc = "idle"
    /\ args' = p
    /\ locals' = [NoLocals EXCEPT !.addr = p.state.ip, !.size = p.size,
                                  !.num_inst = p.num_inst, !.has_irsb = p.irsb_given,
                                  !.irsb = IF p.irsb_given THEN p.irsb ELSE NoBlock,
                                  !.skip_stmts = p.skip_stmts]
    /\ state' = WorkState(p.options)
    /\ successors' = NewSuccessors(p.state.ip)
    /\ trace' = [NoTrace EXCEPT !.events = << Inspect("irsb", "before", p.state.ip) >>]
    /\ pc' = "lift"
    /\ UNCHANGED << heap_vars, engine_vars, parse_vars, cache_vars, call_vars >>

\* the lift call of lines 120-128
ProcessLiftArgs ==
    [state |-> [args.state EXCEPT !.optimize_ir = "OPTIMIZE_IR" \in state.options],
     clemory |-> FALSE, insn_bytes |-> args.insn_bytes,
     arch |-> FALSE, addr |-> locals.addr, size |-> locals.size,
     num_inst |-> locals.num_inst, thumb |-> args.thumb, opt_level |-> args.opt_level]

\* lines 461-470: the options of the state handed to lift, once lift has
\* settled the optimisation level
LiftOptions(e, a, options) ==
    LET opt0 == IF a.opt_level # None THEN a.opt_level
                ELSE IF a.state.present /\ "OPTIMIZE_IR" \in options THEN 1
                ELSE e.default_opt_level
    IN  IF e.support_selfmodifying_code /\ opt0 > 0 /\ a.state.present
        THEN options \ {"OPTIMIZE_IR"} ELSE options

\* lines 119-128, irsb is None: lift a block; an error of lift reaches the caller
ProcessLift ==
    /\ pc = "lift"
    /\ ~locals.has_irsb
    /\ DoLift(ProcessLiftArgs)
    /\ locals' = [locals EXCEPT !.irsb = last'.irsb, !.has_irsb = last'.ok,
                                !.err = last'.err]
    /\ pc' = IF last'.ok THEN "check" ELSE "raised"
    /\ state' = [state EXCEPT !.options = LiftOptions(Eng, ProcessLiftArgs, @)]
    /\ UNCHANGED << args, successors, trace >>

\* lines 119, irsb is given
ProcessGiven ==
    /\ pc = "lift"
    /\ locals.has_irsb
    /\ pc' = "check"
    /\ UNCHANGED << heap_vars, engine_vars, parse_vars, cache_vars, call_vars, args, locals, state, successors,
                    trace >>

Executable(perms) == (perms.val \div 4) % 2 = 1

\* lines 130-146: the empty block and the page permissions
ProcessCheckError ==
    IF locals.irsb.size = 0 THEN "SimIRSBError"
    ELSE IF "STRICT_PAGE_ACCESS" \notin state.options THEN ""
    ELSE IF args.state.perms.kind = "error" THEN "SimSegfaultError"
    ELSE IF args.state.perms.kind = "symbolic" THEN ""
    ELSE IF ~Executable(args.state.perms) /\ "ENABLE_NX" \in state.options
    THEN "SimSegfaultError"
    ELSE ""

ProcessCheck ==
    /\ pc = "check"
    /\ locals' = [locals EXCEPT !.err = ProcessCheckError]
    /\ pc' = IF ProcessCheckError = "" THEN "irsb" ELSE "raised"
    /\ UNCHANGED << heap_vars, engine_vars, parse_vars, cache_vars, call_vars, args, state, successors, trace >>

-----------------------------------------------------------------------------
(* SimEngineVEX._handle_irsb (lines 174-323) and _handle_statement          *)
(* (lines 325-394).  Statement indices count from 0.                        *)

Stmt(i) == locals.irsb.statements[i + 1]
NumStmts == Len(locals.irsb.statements)

\* lines 192-199: the index of the fourth instruction mark from the end
RECURSIVE FastpathSkip(_, _, _, _)
FastpathSkip(ss, i, imark_counter, skip_stmts) ==
    IF i < 0 THEN skip_stmts
    ELSE LET c == IF IsIMark(ss[i + 1]) THEN imark_counter + 1 ELSE imark_counter
         IN  IF c >= 4 THEN Max(skip_stmts, i)
             ELSE FastpathSkip(ss, i - 1, c, skip_stmts)

\* line 189 (None compares below every number)
HasDefaultExit(num_stmts, last_stmt) == num_stmts <= last_stmt

\* lines 176-199
HandleIrsbBegin ==
    /\ pc = "irsb"
    /\ successors' = [successors EXCEPT !.irsb_size = locals.irsb.size]
    /\ locals' = [locals EXCEPT
          !.has_default_exit = HasDefaultExit(NumStmts, args.last_stmt),
          !.skip_stmts = IF "SUPER_FASTPATH" \in state.options
                         THEN FastpathSkip(locals.irsb.statements, NumStmts - 1, 0,
                                           args.skip_stmts)
                         ELSE args.skip_stmts,
          !.stmt_idx = 0,
          !.insn_addrs = << >>]
    /\ trace' = [trace EXCEPT !.pass = << >>, !.filtered = FALSE]
    /\ pc' = "stmt"
    /\ UNCHANGED << heap_vars, engine_vars, parse_vars, cache_vars, call_vars, args, state >>

\* lines 211-219 with a last_stmt that is itself left out
Filtered_LastExclusive(i, skip_stmts, last_stmt, whitelist) ==
    \/ i < skip_stmts
    \/ last_stmt # None /\ i >= last_stmt
    \/ ~whitelist.isNone /\ i \notin whitelist.idx

\* lines 211-219: the statements the walk passes over
Filtered(i, skip_stmts, last_stmt, whitelist) ==
    \/ i < skip_stmts
    \/ last_stmt # None /\ i > last_stmt
    \/ ~whitelist.isNone /\ i \notin whitelist.idx

AtStatement ==
    /\ pc = "stmt"
    /\ locals.stmt_idx < NumStmts

Selected ==
    /\ AtStatement
    /\ ~Filtered(locals.stmt_idx, locals.skip_stmts, args.last_stmt, args.whitelist)

\* lines 205-209: the instruction addresses, collected from every mark
InsnAddrs ==
    IF IsIMark(Stmt(locals.stmt_idx))
    THEN Append(locals.insn_addrs, Stmt(locals.stmt_idx).addr + Stmt(locals.stmt_idx).delta)
    ELSE locals.insn_addrs

\* the loop of line 204 goes to the next statement, or ends
NextPc == IF locals.stmt_idx + 1 < NumStmts THEN "stmt" ELSE "exits"

\* line 335-337
Dirty(stmt) == \E subaddr \in 0..(stmt.len - 1) : subaddr + stmt.addr \in state.scratch.dirty_addrs

\* the instruction mark that the statement at index i belongs to
RECURSIVE InsnMark(_)
InsnMark(i) == IF i = 0 \/ IsIMark(Stmt(i)) THEN Stmt(i) ELSE InsnMark(i - 1)

\* lines 205-208: at an instruction mark, the after-breakpoint of the
\* instruction before it
AfterAtMark(events) ==
    IF IsIMark(Stmt(locals.stmt_idx)) /\ locals.insn_addrs # << >>
    THEN Append(events, Inspect("instruction", "after",
                                locals.insn_addrs[Len(locals.insn_addrs)]))
    ELSE events

\* lines 240-243: after the last statement, the after-breakpoint of the last
\* instruction
AfterAtEnd(events) ==
    IF locals.stmt_idx >= NumStmts - 1 /\ InsnAddrs # << >>
    THEN Append(events, Inspect("instruction", "after", InsnAddrs[Len(InsnAddrs)]))
    ELSE events

\* lines 223 and 343: the statement's before-breakpoint and, once an
\* instruction mark is past the check for written bytes, the instruction's
BeforeStatement(events, outcome) ==
    LET e1 == Append(events, Inspect("statement", "before", locals.stmt_idx))
    IN  IF IsIMark(Stmt(locals.stmt_idx)) /\ outcome = "ok"
        THEN Append(e1, Inspect("instruction", "before",
                                Stmt(locals.stmt_idx).addr + Stmt(locals.stmt_idx).delta))
        ELSE e1

\* lines 204-243: the breakpoints of one turn of the loop over a statement
\* that is handed to _handle_statement
Inspected(events, outcome) ==
    LET e2 == BeforeStatement(AfterAtMark(events), outcome)
    IN  IF outcome = "ok"
        THEN AfterAtEnd(Append(e2, Inspect("statement", "after", None)))
        ELSE e2

\* the statement handed to _handle_statement, how that ended, and whether a
\* byte of its instruction had been written since the block was lifted
Visit(outcome) ==
    [trace EXCEPT !.pass = Append(@, [idx |-> locals.stmt_idx, outcome |-> outcome,
                                      dirty |-> Dirty(InsnMark(locals.stmt_idx))]),
                  !.events = Inspected(@, outcome)]

\* lines 211-219: continue
SkipStatement ==
    /\ AtStatement
    /\ Filtered(locals.stmt_idx, locals.skip_stmts, args.last_stmt, args.whitelist)
    /\ locals' = [locals EXCEPT !.stmt_idx = @ + 1, !.insn_addrs = InsnAddrs]
    /\ trace' = [trace EXCEPT !.filtered = TRUE, !.events = AfterAtMark(@)]
    /\ pc' = NextPc
    /\ UNCHANGED << heap_vars, engine_vars, parse_vars, cache_vars, call_vars, args, state, successors >>

\* lines 330-345: an instruction mark none of whose bytes was written
HandleIMark ==
    /\ Selected
    /\ IsIMark(Stmt(locals.stmt_idx))
    /\ ~Dirty(Stmt(locals.stmt_idx))
    /\ state' = [state EXCEPT
          !.scratch.stmt_idx = locals.stmt_idx,
          !.scratch.ins_addr = Stmt(locals.stmt_idx).addr + Stmt(locals.stmt_idx).delta,
          !.scratch.num_insns = @ + 1]
    /\ locals' = [locals EXCEPT !.stmt_idx = @ + 1, !.insn_addrs = InsnAddrs]
    /\ trace' = Visit("ok")
    /\ pc' = NextPc
    /\ UNCHANGED << heap_vars, engine_vars, parse_vars, cache_vars, call_vars, args, successors >>

\* a retry that is allowed whatever the bytes came from
ReliftAllowed_Always(insn_bytes) == TRUE

\* line 152: no retry when the caller gave the bytes
ReliftAllowed(insn_bytes) == ~insn_bytes.given

\* a retry that starts over at the address of the pass it abandons
ReliftAddress_SameBlock(stmt) == locals.addr

\* lines 331-332 and 154: the address of the instruction whose mark was
\* reached, where the retry lifts
ReliftAddress(stmt) == stmt.addr + stmt.delta

\* lines 330-337 and 150-163: an instruction mark over written bytes raises
\* SimReliftException, and _process lifts again from that instruction
HandleIMarkRelift ==
    /\ Selected
    /\ IsIMark(Stmt(locals.stmt_idx))
    /\ Dirty(Stmt(locals.stmt_idx))
    /\ LET new_ip == ReliftAddress(Stmt(locals.stmt_idx))
       IN  IF ~ReliftAllowed(args.insn_bytes)
           THEN /\ state' = [state EXCEPT !.scratch.stmt_idx = locals.stmt_idx,
                                          !.scratch.ins_addr = new_ip]
                /\ locals' = [locals EXCEPT !.err = "SimEngineError",
                                            !.insn_addrs = InsnAddrs]
                /\ pc' = "raised"
           ELSE /\ state' = [state EXCEPT !.scratch.stmt_idx = locals.stmt_idx,
                                          !.scratch.ins_addr = new_ip,
                                          !.scratch.dirty_addrs = {}]
                /\ locals' = [locals EXCEPT
                      !.size = IF @ # None THEN @ - (new_ip - locals.addr) ELSE @,
                      !.num_inst = IF @ # None THEN @ - state.scratch.num_insns ELSE @,
                      !.addr = new_ip,
                      !.irsb = NoBlock,
                      !.has_irsb = FALSE,
                      !.insn_addrs = InsnAddrs]
                /\ pc' = "lift"
    /\ trace' = [Visit("relift") EXCEPT !.relifts = @ + 1]
    /\ UNCHANGED << heap_vars, engine_vars, parse_vars, cache_vars, call_vars, args, successors >>

\* the running guard that an exit leaves alone when exit guards are ignored
ExitGuard_IgnoredUnchanged(options, guard, stmt) ==
    IF "IGNORE_EXIT_GUARDS" \in options THEN guard ELSE AndNot(guard, stmt)

\* lines 384 and 394: the running guard after an exit, under either setting of
\* IGNORE_EXIT_GUARDS
ExitGuard(options, guard, stmt) == AndNot(guard, stmt)

\* the negated exit condition constrains the continuing state under either
\* setting of IGNORE_EXIT_GUARDS
ExitConstraints_Always(options, constraints, stmt) == Append(constraints, stmt.cond)

\* lines 374-383 and 385-394: state.add_constraints(cont_condition) is called
\* only when IGNORE_EXIT_GUARDS is not set
ExitConstraints(options, constraints, stmt) ==
    IF "IGNORE_EXIT_GUARDS" \in options THEN constraints
    ELSE Append(constraints, stmt.cond)

\* lines 354-394: an Exit statement
HandleExit ==
    /\ Selected
    /\ Stmt(locals.stmt_idx).tag = "Exit"
    /\ successors' = AddSuccessor(successors, Stmt(locals.stmt_idx).target,
                                  GuardOf(Stmt(locals.stmt_idx)), "Ijk_Boring",
                                  locals.stmt_idx, FALSE, state.scratch.ins_addr)
    /\ state' = [state EXCEPT
          !.scratch.stmt_idx = locals.stmt_idx,
          !.scratch.guard = ExitGuard(state.options, @, Stmt(locals.stmt_idx)),
          !.constraints = ExitConstraints(state.options, @, Stmt(locals.stmt_idx))]
    /\ locals' = [locals EXCEPT !.stmt_idx = @ + 1]
    /\ trace' = [Visit("ok") EXCEPT !.exits = Append(@, Stmt(locals.stmt_idx).cond)]
    /\ pc' = NextPc
    /\ UNCHANGED << heap_vars, engine_vars, parse_vars, cache_vars, call_vars, args >>

\* line 348: any other statement; a store marks the bytes it writes
HandleEffect ==
    /\ Selected
    /\ Stmt(locals.stmt_idx).tag \notin {"IMark", "Exit"}
    /\ state' = [state EXCEPT
          !.scratch.stmt_idx = locals.stmt_idx,
          !.scratch.dirty_addrs = IF Stmt(locals.stmt_idx).tag = "Store"
                                  THEN @ \cup {Stmt(locals.stmt_idx).target}
                                  ELSE @]
    /\ locals' = [locals EXCEPT !.stmt_idx = @ + 1]
    /\ trace' = Visit("ok")
    /\ pc' = NextPc
    /\ UNCHANGED << heap_vars, engine_vars, parse_vars, cache_vars, call_vars, args, successors >>

\* a handler that leaves has_default_exit as it was
AfterSolverError_KeepsDefault(l) == l

\* line 237: the local variables after the handler of line 235
AfterSolverError(l) == [l EXCEPT !.has_default_exit = FALSE]

\* lines 235-238: the statement raises SimSolverError or SimMemoryAddressError
StatementSolverError ==
    /\ Selected
    /\ ~IsIMark(Stmt(locals.stmt_idx))
    /\ state' = [state EXCEPT !.scratch.stmt_idx = locals.stmt_idx]
    /\ locals' = AfterSolverError(locals)
    /\ trace' = Visit("solver")
    /\ pc' = "exits"
    /\ UNCHANGED << heap_vars, engine_vars, parse_vars, cache_vars, call_vars, args, successors >>

\* lines 226-228 and 165-167: the statement raises another SimError
StatementError ==
    /\ Selected
    /\ ~IsIMark(Stmt(locals.stmt_idx))
    /\ state' = [state EXCEPT !.scratch.stmt_idx = locals.stmt_idx]
    /\ locals' = [locals EXCEPT !.err = "SimError"]
    /\ trace' = Visit("error")
    /\ pc' = "raised"
    /\ UNCHANGED << heap_vars, engine_vars, parse_vars, cache_vars, call_vars, args, successors >>

\* a walk that never submits the default exit
DefaultExit_Dropped(succ, st, irsb, has_default_exit, missing) == succ

\* lines 253-277: the default exit; missing says that the temporary the next
\* expression reads was never written (KeyError)
DefaultExit(succ, st, irsb, has_default_exit, missing) ==
    IF ~has_default_exit THEN succ
    ELSE IF missing
    THEN [succ EXCEPT !.unsat_successors = Append(@, StateItself(st))]
    ELSE AddSuccessor(succ, irsb.next, st.scratch.guard, irsb.jumpkind, None, TRUE,
                      st.scratch.ins_addr)

\* line 305 and 311: exit_jumpkind.startswith('Ijk_Sys')
IsSys(jumpkind) == jumpkind = "Ijk_Sys_syscall"
IsCallOrSys(jumpkind) == jumpkind = "Ijk_Call" \/ IsSys(jumpkind)

\* the architecture's call_pushes_ret and bytes (its word size)
CallPushesRet(a) == a = "X86"
ArchBytes == 4

\* lines 285-293: the exit becomes a return to the end of the block, on every
\* list it is on
Calless(list, id, target) ==
    [k \in 1..Len(list) |->
        IF list[k].id = id
        THEN [list[k] EXCEPT !.jumpkind = "Ijk_Ret", !.target = target]
        ELSE list[k]]

\* lines 299-302: the converted exit leaves the unconstrained list
Reclassify(succ, id) ==
    LET found == SelectSeq(succ.unconstrained_successors, LAMBDA s : s.id = id)
    IN  IF found = << >> THEN succ
        ELSE [succ EXCEPT
                \* list.remove takes out the first occurrence
                !.unconstrained_successors =
                    LET first == CHOOSE k \in 1..Len(@) : @[k].id = id /\
                                     \A j \in 1..(k - 1) : @[j].id # id
                    IN  SubSeq(@, 1, first - 1) \o SubSeq(@, first + 1, Len(@)),
                !.flat_successors = Append(@, found[1]),
                !.successors = Append(@, found[1])]

\* lines 280-316, over the successors there were when the loop began, from
\* the k-th on
RECURSIVE RetEmulation(_, _, _, _, _, _)
RetEmulation(succ, exits, k, st, irsb, call_arch) ==
    IF k > Len(exits) THEN succ
    ELSE
    LET ret_target == succ.addr + irsb.size
        next ==
          IF "CALLLESS" \in st.options /\ exits[k].jumpkind = "Ijk_Call"
          THEN Reclassify(
                 [succ EXCEPT
                    !.all_successors = Calless(@, exits[k].id, ret_target),
                    !.successors = Calless(@, exits[k].id, ret_target),
                    !.flat_successors = Calless(@, exits[k].id, ret_target),
                    !.unsat_successors = Calless(@, exits[k].id, ret_target),
                    !.unconstrained_successors = Calless(@, exits[k].id, ret_target)],
                 exits[k].id)
          ELSE IF "DO_RET_EMULATION" \in st.options /\ IsCallOrSys(exits[k].jumpkind)
          THEN Submit(succ,
                 [Successor(Len(succ.all_successors) + 1, ret_target,
                            IF "TRUE_RET_EMULATION_GUARD" \in st.options
                            THEN claripy_true ELSE claripy_false,
                            "Ijk_FakeRet", None, TRUE, st.scratch.ins_addr)
                  EXCEPT !.copy_of = exits[k].id,
                         !.sp = IF CallPushesRet(call_arch) /\ ~IsSys(exits[k].jumpkind)
                                THEN exits[k].sp + ArchBytes ELSE exits[k].sp])
          ELSE succ
    IN  RetEmulation(next, exits, k + 1, st, irsb, call_arch)

\* lines 318-323
WhitelistFallback(succ, st, whitelist) ==
    IF ~whitelist.isNone /\ whitelist.idx # {} /\ IsEmpty(succ)
    THEN [succ EXCEPT !.flat_successors = Append(@, StateItself(st))]
    ELSE succ

\* lines 245-323 and 168-172: the walk is over
HandleIrsbEnd ==
    /\ pc = "exits"
    /\ \E missing \in (IF trace.filtered /\ locals.has_default_exit THEN BOOLEAN
                       ELSE {FALSE}) :
       \E st \in {[state EXCEPT !.scratch.stmt_idx = NumStmts]} :
       \E s1 \in {DefaultExit(successors, st, locals.irsb, locals.has_default_exit,
                              missing)} :
       \E s2 \in {RetEmulation(s1, s1.all_successors, 1, st, locals.irsb, arch)} :
          /\ state' = st
          /\ successors' = [WhitelistFallback(s2, st, args.whitelist)
                               EXCEPT !.processed = TRUE]
    /\ trace' = [trace EXCEPT !.events = Append(@, Inspect("irsb", "after", None))]
    /\ pc' = "done"
    /\ UNCHANGED << heap_vars, engine_vars, parse_vars, cache_vars, call_vars, args, locals >>

ProcessStep == \E p \in ProcessCalls : ProcessBegin(p)

NextProcess ==
    \/ ProcessStep
    \/ ProcessLift
    \/ ProcessGiven
    \/ ProcessCheck
    \/ HandleIrsbBegin
    \/ SkipStatement
    \/ HandleIMark
    \/ HandleIMarkRelift
    \/ HandleExit
    \/ HandleEffect
    \/ StatementSolverError
    \/ StatementError
    \/ HandleIrsbEnd

\* an engine for the process calls
InitProcessSpec ==
    /\ use_cache \in BOOLEAN
    /\ stop_points = NoStops
    /\ arch \in {"X86", "ARM"}
    /\ support_selfmodifying_code \in BOOLEAN
    /\ single_step = FALSE
    /\ default_opt_level = 1
    /\ cache_size = 2
    /\ InitCache
    /\ InitProcess
    /\ InitNoStream
    /\ InitNoStates

SpecProcess == InitProcessSpec /\ [][NextProcess]_vars

-----------------------------------------------------------------------------
(* SimState (angr/sim_state.py): the registry of plugins, copy, merge,     *)
(* widen, and the constraint pass-throughs.  Objects are named by their    *)
(* index in sim_states, plugin_objs and cells; 0 names no object.          *)

\* SimState method calls in one behaviour of SpecPlugins
MaxPluginOps == 3

\* the names a plugin can be had under by default (state_plugins'
\* default_plugins), and the class each is made of
Defaultable == {"memory", "registers", "solver_engine", "globals", "unicorn", "history"}
DefaultClass(name) ==
    CASE name = "memory" -> "SimSymbolicMemory"
      [] name = "registers" -> "SimSymbolicMemory"
      [] name = "solver_engine" -> "SimSolver"
      [] name = "globals" -> "SimStateGlobals"
      [] name = "unicorn" -> "Unicorn"
      [] name = "history" -> "SimStateHistory"
      [] OTHER -> ""
\* the names of the model: the defaultable ones and one that is not
PluginNames == Defaultable \cup {"custom"}
\* the classes a caller registers instances of
PluginClasses == {"SimSymbolicMemory", "SimSolver", "SimStateGlobals", "Unicorn",
                  "SimFastMemory"}
\* the keys of the globals plugin
Keys == {"loop_ctrs"}

\* a plugin instance as its constructor leaves it: bound to no state, no
\* constraints (solver), an empty backer (globals), unchanged contents
NewPlugin(class) ==
    [class |-> class, state |-> 0, inited |-> 0, constraints |-> << >>,
     backer |-> [k \in Keys |-> 0], value |-> 0, widens |-> << >>, merges |-> << >>,
     parent |-> 0]

\* the objects there are, as one value
Heap ==
    [states |-> sim_states, plugins |-> plugin_objs, cells |-> cells,
     merge_counter |-> merge_counter]

\* the objects there are become those of h
SetHeap(h) ==
    /\ sim_states' = h.states
    /\ plugin_objs' = h.plugins
    /\ cells' = h.cells
    /\ merge_counter' = h.merge_counter

\* a new object on the heap
AllocPlugin(h, p) == [h EXCEPT !.plugins = Append(@, p)]
AllocCell(h, c) == [h EXCEPT !.cells = Append(@, c)]

\* lines 286-287
HasPlugin(h, s, name) == h.states[s].plugins[name] # 0

\* lines 296-303: bind the instance to the state, file it under the name
\* (in place of what was there), initialise it
RegisterPlugin(h, s, name, p) ==
    [h EXCEPT !.plugins[p].state = s,
              !.plugins[p].inited = @ + 1,
              !.states[s].plugins[name] = p]

\* lines 305-307
ReleasePlugin(h, s, name) == [h EXCEPT !.states[s].plugins[name] = 0]

\* get_plugin that makes a new instance on every call
GetPlugin_AlwaysNew(h, s, name) ==
    IF name \notin Defaultable THEN [h |-> h, err |-> "KeyError", value |-> 0]
    ELSE LET p == Len(h.plugins) + 1
         IN  [h |-> RegisterPlugin(AllocPlugin(h, NewPlugin(DefaultClass(name))),
                                   s, name, p),
              err |-> "", value |-> p]

\* lines 289-294
GetPlugin(h, s, name) ==
    IF ~HasPlugin(h, s, name)
    THEN IF name \notin Defaultable THEN [h |-> h, err |-> "KeyError", value |-> 0]
         ELSE LET p == Len(h.plugins) + 1
              IN  [h |-> RegisterPlugin(AllocPlugin(h, NewPlugin(DefaultClass(name))),
                                        s, name, p),
                   err |-> "", value |-> p]
    ELSE [h |-> h, err |-> "", value |-> h.states[s].plugins[name]]

\* lines 197-201: state.<name>
GetAttr(h, s, name) ==
    LET r == GetPlugin(h, s, name)
    IN  IF r.err = "KeyError" THEN [r EXCEPT !.err = "AttributeError"] ELSE r

\* lines 72-77: the plugins handed to the constructor are registered
RECURSIVE RegisterAll(_, _, _, _)
RegisterAll(h, s, given, names) ==
    IF names = {} THEN h
    ELSE LET n == CHOOSE x \in names : TRUE
             h1 == IF given[n] = 0 THEN h ELSE RegisterPlugin(h, s, n, given[n])
         IN  RegisterAll(h1, s, given, names \ {n})

NoPlugins == [n \in PluginNames |-> 0]

\* lines 50-116, SimState(arch, plugins, options): a new state object with
\* the plugins given, a memory and a register file of its own, its own
\* set of options, the cached flag true, no global condition and a new
\* empty list of ip constraints
Construct(h, arch_, options, given) ==
    LET s  == Len(h.states) + 1
        c  == Len(h.cells) + 1
        h0 == [h EXCEPT !.states = Append(@,
                  [arch |-> arch_, options |-> options, plugins |-> NoPlugins,
                   satisfiable |-> TRUE, global_condition |-> << >>,
                   ip_constraints |-> 0])]
        h1 == RegisterAll(h0, s, given, PluginNames)
        h2 == IF HasPlugin(h1, s, "memory") THEN h1
              ELSE RegisterPlugin(AllocPlugin(h1, NewPlugin("SimSymbolicMemory")),
                                  s, "memory", Len(h1.plugins) + 1)
        h3 == IF HasPlugin(h2, s, "registers") THEN h2
              ELSE RegisterPlugin(AllocPlugin(h2, NewPlugin("SimSymbolicMemory")),
                                  s, "registers", Len(h2.plugins) + 1)
    IN  [AllocCell(h3, << >>) EXCEPT !.states[s].ip_constraints = c]

EmptyHeap == [states |-> << >>, plugins |-> << >>, cells |-> << >>, merge_counter |-> 0]

\* a SimState method call returned
Returned(op, recv, name, others, r) ==
    /\ ops' = ops + 1
    /\ ret' = [NoRet EXCEPT !.op = op, !.recv = recv, !.name = name, !.others = others,
                            !.err = r.err, !.value = r.value]

StateIds == 1..Len(sim_states)

\* state.get_plugin(name)
GetPluginStep ==
    /\ ops < MaxPluginOps
    /\ \E s \in StateIds, name \in {"globals", "solver_engine", "custom"} :
       \E r \in {GetPlugin(Heap, s, name)} :
          /\ SetHeap(r.h)
          /\ Returned("get_plugin", s, name, << >>, r)
    /\ UNCHANGED << engine_vars, parse_vars, cache_vars, call_vars, proc_vars >>

\* state.<name>
GetAttrStep ==
    /\ ops < MaxPluginOps
    /\ \E s \in StateIds, name \in {"unicorn", "custom"} :
       \E r \in {GetAttr(Heap, s, name)} :
          /\ SetHeap(r.h)
          /\ Returned("getattr", s, name, << >>, r)
    /\ UNCHANGED << engine_vars, parse_vars, cache_vars, call_vars, proc_vars >>

\* state.register_plugin(name, cls())
RegisterPluginStep ==
    /\ ops < MaxPluginOps
    /\ \E s \in StateIds, reg \in { <<"globals", "SimFastMemory">>,
                                      <<"custom", "Unicorn">> } :
       \E name \in {reg[1]}, class \in {reg[2]}, p \in {Len(plugin_objs) + 1} :
          /\ SetHeap(RegisterPlugin(AllocPlugin(Heap, NewPlugin(class)), s, name, p))
          /\ Returned("register_plugin", s, name, << >>, [err |-> "", value |-> p])
    /\ UNCHANGED << engine_vars, parse_vars, cache_vars, call_vars, proc_vars >>

\* state.release_plugin(name)
ReleasePluginStep ==
    /\ ops < MaxPluginOps
    /\ \E s \in StateIds, name \in {"globals", "memory"} :
          /\ SetHeap(ReleasePlugin(Heap, s, name))
          /\ Returned("release_plugin", s, name, << >>, [err |-> "", value |-> 0])
    /\ UNCHANGED << engine_vars, parse_vars, cache_vars, call_vars, proc_vars >>

NextPlugins ==
    \/ GetPluginStep
    \/ GetAttrStep
    \/ RegisterPluginStep
    \/ ReleasePluginStep

\* the engine is not used and no SimState method was called
InitStateCalls ==
    /\ use_cache = TRUE
    /\ stop_points = NoStops
    /\ arch = "X86"
    /\ support_selfmodifying_code = FALSE
    /\ single_step = FALSE
    /\ default_opt_level = 1
    /\ cache_size = 2
    /\ InitCache
    /\ InitProcess
    /\ InitNoStream
    /\ ops = 0
    /\ ret = NoRet

\* the objects there are at the start are those of h
InitHeap(h) ==
    /\ sim_states = h.states
    /\ plugin_objs = h.plugins
    /\ cells = h.cells
    /\ merge_counter = h.merge_counter

SymbolicMode == {"SYMBOLIC", "TRACK_CONSTRAINTS"}

\* two states made by the constructor, of one architecture or of two
InitPlugins ==
    /\ InitStateCalls
    /\ \E a \in {"X86", "ARM"} :
          InitHeap(Construct(Construct(EmptyHeap, "X86", SymbolicMode, NoPlugins),
                             a, SymbolicMode, NoPlugins))

SpecPlugins == InitPlugins /\ [][NextPlugins]_vars

-----------------------------------------------------------------------------
(* SimState.copy, the with_condition scope, and what a caller changes in   *)
(* place through a state.                                                  *)

\* SimState method calls and in-place changes in one behaviour of SpecCopy
MaxCopyOps == 3

\* claripy's booleans: true, false, a symbolic boolean that is neither,
\* the test of a merge flag against a value, and disjunction and conjunction
BoolTrue == [kind |-> "true", var |-> 0, val |-> 0, terms |-> << >>]
BoolFalse == [kind |-> "false", var |-> 0, val |-> 0, terms |-> << >>]
BoolSym(v) == [kind |-> "sym", var |-> v, val |-> 0, terms |-> << >>]
FlagEq(flag, b) == [kind |-> "eq", var |-> flag, val |-> b, terms |-> << >>]
BoolOr(terms) == [kind |-> "or", var |-> 0, val |-> 0, terms |-> terms]
BoolAnd(terms) == [kind |-> "and", var |-> 0, val |-> 0, terms |-> terms]

\* globals.py 55-58, copy.deepcopy(self._backer): every value the backer
\* holds is copied into a new cell
RECURSIVE DeepCopyBacker(_, _, _)
DeepCopyBacker(h, backer, keys) ==
    IF keys = {} THEN [h |-> h, backer |-> backer]
    ELSE LET k == CHOOSE x \in keys : TRUE
         IN  IF backer[k] = 0 THEN DeepCopyBacker(h, backer, keys \ {k})
             ELSE DeepCopyBacker(AllocCell(h, h.cells[backer[k]]),
                                 [backer EXCEPT ![k] = Len(h.cells) + 1], keys \ {k})

\* plugin.copy(): a new instance of the same class with contents of its
\* own, bound to no state yet
CopyPlugin(h, p) ==
    LET d == DeepCopyBacker(h, h.plugins[p].backer, Keys)
    IN  AllocPlugin(d.h, [h.plugins[p] EXCEPT !.state = 0, !.inited = 0,
                                              !.backer = d.backer,
                                              !.widens = << >>, !.merges = << >>])

\* lines 427-428: a copy of every plugin of the state
RECURSIVE CopyPlugins(_, _, _, _)
CopyPlugins(h, s, names, acc) ==
    IF names = {} THEN [h |-> h, plugins |-> acc]
    ELSE LET n == CHOOSE x \in names : TRUE
         IN  IF h.states[s].plugins[n] = 0 THEN CopyPlugins(h, s, names \ {n}, acc)
             ELSE LET h1 == CopyPlugin(h, h.states[s].plugins[n])
                  IN  CopyPlugins(h1, s, names \ {n},
                                  [acc EXCEPT ![n] = Len(h1.plugins)])

\* a copy that takes over the plugin instances of the original
Copy_Shallow(h, s) ==
    IF h.states[s].global_condition # << >>
    THEN [h |-> h, err |-> "SimStateError", value |-> 0]
    ELSE LET h1 == Construct(h, h.states[s].arch, h.states[s].options,
                             h.states[s].plugins)
             n  == Len(h1.states)
         IN  [h |-> [h1 EXCEPT !.states[n].ip_constraints =
                                   h.states[s].ip_constraints],
              err |-> "", value |-> n]

\* a copy that does not look at the global condition
Copy_Unchecked(h, s) ==
    LET c  == CopyPlugins(h, s, PluginNames, NoPlugins)
        h1 == Construct(c.h, h.states[s].arch, h.states[s].options, c.plugins)
        n  == Len(h1.states)
    IN  [h |-> [h1 EXCEPT !.states[n].ip_constraints = h.states[s].ip_constraints],
         err |-> "", value |-> n]

\* lines 430-445
Copy(h, s) ==
    IF h.states[s].global_condition # << >>
    THEN [h |-> h, err |-> "SimStateError", value |-> 0]
    ELSE LET c  == CopyPlugins(h, s, PluginNames, NoPlugins)
             h1 == Construct(c.h, h.states[s].arch, h.states[s].options, c.plugins)
             n  == Len(h1.states)
         IN  [h |-> [h1 EXCEPT !.states[n].ip_constraints =
                                   h.states[s].ip_constraints],
              err |-> "", value |-> n]

\* lines 738-750, entering `with state.with_condition(c):`; a condition
\* that joins one already there is built by the state's solver
EnterCondition(h, s, c) ==
    LET h1 == IF h.states[s].global_condition = << >> THEN h
              ELSE GetPlugin(h, s, "solver_engine").h
    IN  [h1 EXCEPT !.states[s].global_condition = Append(@, c)]

\* lines 747-748, leaving the scope
LeaveCondition(h, s) ==
    [h EXCEPT !.states[s].global_condition = SubSeq(@, 1, Len(@) - 1)]

\* state.globals[k] = []
SetGlobal(h, s, k) ==
    LET g  == GetPlugin(h, s, "globals")
        h1 == AllocCell(g.h, << >>)
    IN  [h1 EXCEPT !.plugins[g.value].backer[k] = Len(h1.cells)]

\* state.globals[k].append(v)
AppendGlobal(h, s, k, v) ==
    LET g == GetPlugin(h, s, "globals")
    IN  [g.h EXCEPT !.cells[g.h.plugins[g.value].backer[k]] = Append(@, v)]

\* state.options.add(o)
AddOption(h, s, opt) == [h EXCEPT !.states[s].options = @ \cup {opt}]

\* state.ip_constraints.append(c)
AppendIpConstraint(h, s, c) ==
    [h EXCEPT !.cells[h.states[s].ip_constraints] = Append(@, c)]

\* what can be read through a state: its options, its flag, its scope,
\* its list of ip constraints, and its plugins with what they hold
PluginView(h, p) ==
    IF p = 0 THEN << >>
    ELSE << h.plugins[p].class, h.plugins[p].constraints, h.plugins[p].value,
            [k \in Keys |-> IF h.plugins[p].backer[k] = 0 THEN << >>
                            ELSE << h.cells[h.plugins[p].backer[k]] >>] >>

View(h, s) ==
    [arch |-> h.states[s].arch, options |-> h.states[s].options,
     satisfiable |-> h.states[s].satisfiable,
     global_condition |-> h.states[s].global_condition,
     ip_constraints |-> h.cells[h.states[s].ip_constraints],
     plugins |-> [n \in PluginNames |-> PluginView(h, h.states[s].plugins[n])]]

\* c = state.copy()
CopyStep ==
    /\ ops < MaxCopyOps
    /\ \E s \in StateIds :
       \E r \in {Copy(Heap, s)} :
          /\ SetHeap(r.h)
          /\ Returned("copy", s, "", << >>, r)
    /\ UNCHANGED << engine_vars, parse_vars, cache_vars, call_vars, proc_vars >>

\* an in-place change made through one state
Changed(op, s, h) ==
    /\ ops < MaxCopyOps
    /\ SetHeap(h)
    /\ Returned(op, s, "", << >>, [err |-> "", value |-> 0])
    /\ UNCHANGED << engine_vars, parse_vars, cache_vars, call_vars, proc_vars >>

SetGlobalStep == \E s \in StateIds : Changed("set_global", s, SetGlobal(Heap, s, "loop_ctrs"))

AppendGlobalStep ==
    \E s \in StateIds :
       /\ HasPlugin(Heap, s, "globals")
       /\ plugin_objs[sim_states[s].plugins["globals"]].backer["loop_ctrs"] # 0
       /\ Changed("append_global", s, AppendGlobal(Heap, s, "loop_ctrs", ops))

AddOptionStep == \E s \in StateIds : Changed("add_option", s, AddOption(Heap, s, "LAZY_SOLVES"))

AppendIpConstraintStep ==
    \E s \in StateIds :
       Changed("append_ip_constraint", s, AppendIpConstraint(Heap, s, BoolSym(ops)))

EnterConditionStep ==
    \E s \in StateIds :
       /\ Len(sim_states[s].global_condition) < 2
       /\ Changed("enter_condition", s, EnterCondition(Heap, s, BoolSym(ops)))

LeaveConditionStep ==
    \E s \in StateIds :
       /\ sim_states[s].global_condition # << >>
       /\ Changed("leave_condition", s, LeaveCondition(Heap, s))

NextCopy ==
    \/ CopyStep
    \/ SetGlobalStep
    \/ AppendGlobalStep
    \/ AddOptionStep
    \/ AppendIpConstraintStep
    \/ EnterConditionStep
    \/ LeaveConditionStep

\* one state made by the constructor, with a globals plugin that holds a
\* nested list or without one
InitCopy ==
    /\ InitStateCalls
    /\ \E g \in BOOLEAN :
       \E h \in {Construct(EmptyHeap, "X86", SymbolicMode, NoPlugins)} :
          InitHeap(IF g THEN SetGlobal(h, 1, "loop_ctrs") ELSE h)

SpecCopy == InitCopy /\ [][NextCopy]_vars

-----------------------------------------------------------------------------
(* The constraint pass-throughs: add_constraints and satisfiable.          *)

\* add_constraints and satisfiable calls in one behaviour of SpecConstraints
MaxConstraintOps == 3

\* booleans that only the value-set backend decides
VsaFalse == [kind |-> "vsa_false", var |-> 0, val |-> 0, terms |-> << >>]
VsaTrue == [kind |-> "vsa_true", var |-> 0, val |-> 0, terms |-> << >>]

\* state.se.is_false(e), state.se.is_true(e)
IsFalse(e) == e.kind = "false"
IsTrue(e) == e.kind = "true"
\* claripy.backends.vsa.is_false(e), is_true(e)
VsaIsFalse(e) == e.kind \in {"false", "vsa_false"}
VsaIsTrue(e) == e.kind \in {"true", "vsa_true"}

\* the symbolic booleans and the values of a merge flag there are
SymIds == 0..3
FlagVals == 0..3

\* the value of a boolean under an assignment of the merge flags and of
\* the symbolic booleans
RECURSIVE Eval(_, _, _)
Eval(e, fa, sa) ==
    CASE e.kind \in {"true", "vsa_true"} -> TRUE
      [] e.kind \in {"false", "vsa_false"} -> FALSE
      [] e.kind = "sym" -> sa[e.var]
      [] e.kind = "eq" -> fa[e.var] = e.val
      [] e.kind = "or" -> \E i \in 1..Len(e.terms) : Eval(e.terms[i], fa, sa)
      [] e.kind = "and" -> \A i \in 1..Len(e.terms) : Eval(e.terms[i], fa, sa)

\* the solver's verdict on a list of constraints
Sat(cs, flags) ==
    \E fa \in [0..(flags - 1) -> FlagVals], sa \in [SymIds -> BOOLEAN] :
        \A i \in 1..Len(cs) : Eval(cs[i], fa, sa)

\* lines 752-766: the constraints as the scope's condition makes them
GlobalCondition(st) ==
    IF Len(st.global_condition) = 1 THEN st.global_condition[1]
    ELSE BoolAnd(st.global_condition)

AdjustConditionList(st, conditions) ==
    IF st.global_condition = << >> THEN conditions
    ELSE IF Len(conditions) = 0 THEN << GlobalCondition(st) >>
    ELSE << BoolAnd(<< GlobalCondition(st), BoolAnd(conditions) >>) >>

\* state.se.add(*constraints): the state's solver takes the constraints
SolverAdd(h, s, constraints) ==
    LET g == GetPlugin(h, s, "solver_engine")
    IN  [g.h EXCEPT !.plugins[g.value].constraints =
                        @ \o AdjustConditionList(h.states[s], constraints)]

\* lines 355-392: the abstract solver looks at the constraints one after
\* the other, stops at the first that is false, and narrows the registers
\* by one that is neither true nor false
RECURSIVE AbstractAdd(_, _, _, _)
AbstractAdd(h, s, cargs, i) ==
    IF i > Len(cargs) THEN h
    ELSE IF IsFalse(cargs[i]) THEN [h EXCEPT !.states[s].satisfiable = FALSE]
    ELSE IF IsTrue(cargs[i]) THEN AbstractAdd(h, s, cargs, i + 1)
    ELSE IF VsaIsFalse(cargs[i]) THEN [h EXCEPT !.states[s].satisfiable = FALSE]
    ELSE IF VsaIsTrue(cargs[i]) THEN AbstractAdd(h, s, cargs, i + 1)
    ELSE LET r == GetPlugin(h, s, "registers")
         IN  AbstractAdd([r.h EXCEPT !.plugins[r.value].value = @ + 1], s, cargs, i + 1)

\* add_constraints that goes on after a false constraint
AddConstraints_FlagOnLast(h, s, cargs) ==
    LET h1 == IF "TRACK_CONSTRAINTS" \in h.states[s].options /\ Len(cargs) > 0
              THEN SolverAdd(h, s, cargs) ELSE h
    IN  IF Len(cargs) > 0 /\ ("ABSTRACT_SOLVER" \in h.states[s].options
                               \/ "SYMBOLIC" \notin h.states[s].options)
        THEN [h1 EXCEPT !.states[s].satisfiable = ~IsFalse(cargs[Len(cargs)])]
        ELSE h1

\* lines 319-398
AddConstraints(h, s, cargs) ==
    LET h1 == IF "TRACK_CONSTRAINTS" \in h.states[s].options /\ Len(cargs) > 0
              THEN SolverAdd(h, s, cargs) ELSE h
    IN  IF "ABSTRACT_SOLVER" \in h.states[s].options /\ Len(cargs) > 0
        THEN AbstractAdd(h1, s, cargs, 1)
        ELSE IF "SYMBOLIC" \notin h.states[s].options /\ Len(cargs) > 0
        THEN IF \E i \in 1..Len(cargs) : IsFalse(cargs[i])
             THEN [h1 EXCEPT !.states[s].satisfiable = FALSE] ELSE h1
        ELSE h1

\* the constraints the state's solver holds
ConstraintsOf(h, s) ==
    IF HasPlugin(h, s, "solver_engine")
    THEN h.plugins[h.states[s].plugins["solver_engine"]].constraints ELSE << >>

\* lines 400-412; the result is in `changed`
Satisfiable(h, s, extra) ==
    IF "ABSTRACT_SOLVER" \in h.states[s].options \/ "SYMBOLIC" \notin h.states[s].options
    THEN [h |-> h, err |-> "", value |-> 0,
          result |-> IF \E i \in 1..Len(extra) : IsFalse(extra[i]) THEN FALSE
                     ELSE h.states[s].satisfiable]
    ELSE LET g == GetPlugin(h, s, "solver_engine")
         IN  [h |-> g.h, err |-> "", value |-> 0,
              result |-> Sat(ConstraintsOf(g.h, s) \o AdjustConditionList(h.states[s], extra),
                             h.merge_counter)]

\* the option sets of the symbolic mode, the abstract-solver mode and the
\* non-symbolic mode
AbstractMode == {"ABSTRACT_SOLVER", "TRACK_CONSTRAINTS"}
NonSymbolicMode == {"TRACK_CONSTRAINTS"}
StateModes == {SymbolicMode, AbstractMode, NonSymbolicMode}
\* the approximate modes without the tracking of constraints
UntrackedModes == {{"ABSTRACT_SOLVER"}, {}}

\* a list or tuple handed over where a boolean is expected
ListArg == [kind |-> "list", var |-> 0, val |-> 0, terms |-> << >>]

\* lines 325-326
AddConstraintsError(cargs) ==
    IF Len(cargs) > 0 /\ cargs[1].kind = "list" THEN "Exception" ELSE ""

\* the arguments of the add_constraints calls of the model
ConstraintArgs ==
    { << BoolFalse >>, << BoolSym(1) >>, << BoolTrue, BoolFalse, BoolSym(2) >>,
      << BoolSym(2), BoolFalse >>, << VsaFalse >>, << >>, << ListArg >> }

\* state.add_constraints(*cargs)
AddConstraintsStep ==
    /\ ops < MaxConstraintOps
    /\ \E s \in StateIds, cargs \in ConstraintArgs :
          /\ SetHeap(IF AddConstraintsError(cargs) # "" THEN Heap
                     ELSE AddConstraints(Heap, s, cargs))
          /\ ops' = ops + 1
          /\ ret' = [NoRet EXCEPT !.op = "add_constraints", !.recv = s,
                                  !.conditions = cargs,
                                  !.err = AddConstraintsError(cargs)]
    /\ UNCHANGED << engine_vars, parse_vars, cache_vars, call_vars, proc_vars >>

\* state.satisfiable(extra_constraints=extra)
SatisfiableStep ==
    /\ ops < MaxConstraintOps
    /\ \E s \in StateIds, extra \in { << >>, << BoolFalse >>, << BoolSym(1) >> } :
       \E r \in {Satisfiable(Heap, s, extra)} :
          /\ SetHeap(r.h)
          /\ ops' = ops + 1
          /\ ret' = [NoRet EXCEPT !.op = "satisfiable", !.recv = s,
                                  !.conditions = extra, !.changed = r.result]
    /\ UNCHANGED << engine_vars, parse_vars, cache_vars, call_vars, proc_vars >>

NextConstraints ==
    \/ AddConstraintsStep
    \/ SatisfiableStep

\* one state made by the constructor, in one of the three modes
InitConstraints ==
    /\ InitStateCalls
    /\ \E mode \in StateModes \cup UntrackedModes :
          InitHeap(Construct(EmptyHeap, "X86", mode, NoPlugins))

SpecConstraints == InitConstraints /\ [][NextConstraints]_vars

-----------------------------------------------------------------------------
(* SimState.merge and SimState.widen, with the merge and widen of the      *)
(* plugins they call.                                                      *)

\* merge and widen calls in one behaviour of SpecMerge
MaxMergeOps == 2

\* the elements of a sequence
Range(seq) == { seq[i] : i \in 1..Len(seq) }

RECURSIVE MaxValue(_, _, _)
MaxValue(h, ps, i) ==
    IF i > Len(ps) THEN 0 ELSE Max(h.plugins[ps[i]].value, MaxValue(h, ps, i + 1))

\* globals.py 16-23: the keys the others have and this one has not are
\* taken over, with the very values the others hold
RECURSIVE MergeBackers(_, _, _, _)
MergeBackers(h, backer, theirs, i) ==
    IF i > Len(theirs) THEN backer
    ELSE MergeBackers(h,
            [k \in Keys |-> IF backer[k] = 0 THEN h.plugins[theirs[i]].backer[k]
                            ELSE backer[k]],
            theirs, i + 1)

\* the constraints of the merged solver: one constraint, the disjunction
\* over the solvers of each one's condition and constraints
SolverMerge(h, all, conditions) ==
    << BoolOr([i \in 1..Len(all) |->
                 BoolAnd(<< IF i <= Len(conditions) THEN conditions[i] ELSE BoolTrue >>
                         \o h.plugins[all[i]].constraints)]) >>

\* plugin.merge(others, merge_conditions, common_ancestor): what it makes
\* of the instance, and whether it says that merging occurred
PluginMerge(h, ours, theirs, conditions, ancestor) ==
    LET class == h.plugins[ours].class
        all == << ours >> \o theirs
        returned == \/ class \in {"SimStateGlobals", "SimSolver"}
                    \/ \E i \in 1..Len(theirs) :
                          h.plugins[theirs[i]].value # h.plugins[ours].value
        logged == [h EXCEPT !.plugins[ours].merges =
                                Append(@, [others |-> theirs, ancestor |-> ancestor,
                                           returned |-> returned])]
    IN  [h |-> CASE class = "SimStateGlobals" ->
                      [logged EXCEPT !.plugins[ours].backer = MergeBackers(h, @, theirs, 1)]
                 [] class = "SimSolver" ->
                      [logged EXCEPT !.plugins[ours].constraints =
                                         SolverMerge(h, all, conditions)]
                 [] OTHER ->
                      [logged EXCEPT !.plugins[ours].value = MaxValue(h, all, 1)],
         changed |-> returned]

\* plugin.widen(others); globals.py 27-29 for the globals
PluginWiden(h, ours, theirs) ==
    LET class == h.plugins[ours].class
        returned == /\ class # "SimStateGlobals"
                    /\ \E i \in 1..Len(theirs) :
                          h.plugins[theirs[i]].value # h.plugins[ours].value
        logged == [h EXCEPT !.plugins[ours].widens =
                                Append(@, [others |-> theirs, returned |-> returned])]
    IN  [h |-> IF class = "SimStateGlobals" THEN logged
               ELSE [logged EXCEPT !.plugins[ours].value =
                                       MaxValue(h, << ours >> \o theirs, 1)],
         changed |-> returned]

\* the arguments of a merge call
NoConditions == [given |-> FALSE, list |-> << >>]
NoWhitelistOfPlugins == [given |-> FALSE, names |-> {}]
MergeCall(recv, others) ==
    [recv |-> recv, others |-> others, merge_conditions |-> NoConditions,
     common_ancestor |-> 0, plugin_whitelist |-> NoWhitelistOfPlugins, kwargs |-> FALSE]

\* merge conditions that number the participants from one flag value
MergeConditions_SameValue(flag, call) ==
    [b \in 1..(Len(call.others) + 1) |-> FlagEq(flag, 0)]

\* lines 468-476: the branch conditions, one per participant
MergeConditions(flag, call) ==
    IF ~call.merge_conditions.given
    THEN [b \in 1..(Len(call.others) + 1) |-> FlagEq(flag, b - 1)]
    ELSE [i \in 1..Len(call.merge_conditions.list) |->
            IF call.merge_conditions.list[i] = << >> THEN BoolTrue
            ELSE BoolAnd(call.merge_conditions.list[i])]

\* lines 510-513: every other state that lacks the plugin gets a new
\* instance of the class registered; the instances, one per other state
RECURSIVE FillTheirs(_, _, _, _, _, _)
FillTheirs(h, others, i, name, class, acc) ==
    IF i > Len(others) THEN [h |-> h, theirs |-> acc]
    ELSE IF HasPlugin(h, others[i], name)
    THEN FillTheirs(h, others, i + 1, name, class,
                    Append(acc, h.states[others[i]].plugins[name]))
    ELSE LET p == Len(h.plugins) + 1
         IN  FillTheirs(RegisterPlugin(AllocPlugin(h, NewPlugin(class)),
                                       others[i], name, p),
                        others, i + 1, name, class, Append(acc, p))

\* lines 494-524, over the plugin names left
RECURSIVE MergePlugins(_, _, _, _, _, _)
MergePlugins(h, merged, call, conditions, names, changed) ==
    IF names = {} THEN [h |-> h, err |-> "", changed |-> changed]
    ELSE
    LET p == CHOOSE x \in names : TRUE
        holders == { t \in {merged} \cup Range(call.others) : HasPlugin(h, t, p) }
        plugin_classes == { h.plugins[h.states[t].plugins[p]].class : t \in holders }
    IN  IF Cardinality(plugin_classes) # 1
        THEN [h |-> h, err |-> "SimMergeError", changed |-> changed]
        ELSE
        LET plugin_class == CHOOSE c \in plugin_classes : TRUE
            h1 == IF HasPlugin(h, merged, p) THEN h
                  ELSE RegisterPlugin(AllocPlugin(h, NewPlugin(plugin_class)),
                                      merged, p, Len(h.plugins) + 1)
            f  == FillTheirs(h1, call.others, 1, p, plugin_class, << >>)
            anc == IF call.common_ancestor # 0 /\ HasPlugin(h, call.common_ancestor, p)
                   THEN h.states[call.common_ancestor].plugins[p] ELSE 0
            r  == PluginMerge(f.h, f.h.states[merged].plugins[p], f.theirs,
                              conditions, anc)
        IN  MergePlugins(r.h, merged, call, conditions, names \ {p},
                         changed \/ r.changed)

\* a merged state constrained with all the conditions at once
MergedConstraint_All(conditions) == BoolAnd(conditions)

\* line 526: what the merged state is constrained with
MergedConstraint(conditions) == BoolOr(conditions)

\* the names of the plugins a state has
PluginKeys(h, s) == { n \in PluginNames : HasPlugin(h, s, n) }

\* lines 447-527; ipdb says whether the debugger of line 479 can be imported
Merge(h, call, ipdb) ==
    LET s == call.recv
        fail(hh, e) == [h |-> hh, err |-> e, value |-> 0, conditions |-> << >>,
                        changed |-> FALSE]
    IN
    IF call.kwargs THEN fail(h, "ValueError")
    ELSE
    LET synth == ~call.merge_conditions.given
                    \/ "IGNORE_MERGE_CONDITIONS" \in h.states[s].options
        \* self.se makes the solver plugin if the state has none yet
        h1 == IF synth \/ Len(call.merge_conditions.list) > 0
              THEN GetPlugin(h, s, "solver_engine").h ELSE h
        h2 == IF synth THEN [h1 EXCEPT !.merge_counter = @ + 1] ELSE h1
        conditions == MergeConditions(h.merge_counter,
                          [call EXCEPT !.merge_conditions.given = ~synth])
    IN
    IF Cardinality({ h2.states[t].arch : t \in Range(call.others) }) # 1
    THEN fail(h2, IF ipdb THEN "SimMergeError" ELSE "ImportError")
    ELSE
    LET all0 == PluginKeys(h2, s) \cup
                    UNION { PluginKeys(h2, t) : t \in Range(call.others) }
        all_plugins == IF call.plugin_whitelist.given
                       THEN all0 \cap call.plugin_whitelist.names ELSE all0
        c == Copy(h2, s)
    IN
    IF c.err # "" THEN fail(h2, c.err)
    ELSE
    LET merged == c.value
        \* merged.history.parent = self.history
        sh == GetPlugin(c.h, s, "history")
        mh == GetPlugin(sh.h, merged, "history")
        h3 == [mh.h EXCEPT !.plugins[mh.value].parent = sh.value]
        mp == MergePlugins(h3, merged, call, conditions, all_plugins, FALSE)
    IN
    IF mp.err # "" THEN fail(mp.h, mp.err)
    ELSE [h |-> AddConstraints(GetPlugin(mp.h, merged, "solver_engine").h, merged,
                               << MergedConstraint(conditions) >>),
          err |-> "", value |-> merged, conditions |-> conditions,
          changed |-> mp.changed]

\* a widen that passes over no plugin
NotWidened_None == {}

\* lines 546-547: the plugins widen passes over
NotWidened == {"solver_engine", "unicorn"}

\* lines 545-551, over the plugin names left
RECURSIVE WidenPlugins(_, _, _, _, _)
WidenPlugins(h, widened, others, names, changed) ==
    IF names = {} THEN [h |-> h, err |-> "", changed |-> changed]
    ELSE
    LET p == CHOOSE x \in names : TRUE
    IN  IF p \in NotWidened
        THEN WidenPlugins(h, widened, others, names \ {p}, changed)
        ELSE IF \E i \in 1..Len(others) : ~HasPlugin(h, others[i], p)
        THEN [h |-> h, err |-> "KeyError", changed |-> changed]
        ELSE LET r == PluginWiden(h, h.states[widened].plugins[p],
                                  [i \in 1..Len(others) |-> h.states[others[i]].plugins[p]])
             IN  WidenPlugins(r.h, widened, others, names \ {p}, changed \/ r.changed)

\* lines 529-553
Widen(h, s, others) ==
    LET fail(hh, e) == [h |-> hh, err |-> e, value |-> 0, conditions |-> << >>,
                        changed |-> FALSE]
    IN
    IF Cardinality({ PluginKeys(h, t) : t \in Range(others) }) # 1
    THEN fail(h, "SimMergeError")
    ELSE IF Cardinality({ h.states[t].arch : t \in Range(others) }) # 1
    THEN fail(h, "SimMergeError")
    ELSE
    LET c == Copy(h, s)
    IN  IF c.err # "" THEN fail(h, c.err)
        ELSE LET w == WidenPlugins(c.h, c.value, others, PluginKeys(h, s), FALSE)
             IN  IF w.err # "" THEN fail(w.h, w.err)
                 ELSE [h |-> w.h, err |-> "", value |-> c.value,
                       conditions |-> << >>, changed |-> w.changed]

\* the plugin whitelist of the model
SomePlugins == {"globals", "memory"}

\* engine.py 347-394, an Exit statement handled in the state: the actions
\* of the statement go to the history of the state, the state is copied for
\* the exit, and the state itself goes on under the negated guard
ExitStatement(h, s) ==
    LET g  == GetPlugin(h, s, "history")
        h1 == [g.h EXCEPT !.plugins[g.value].value = @ + 1]
        c  == Copy(h1, s)
    IN  IF c.err # "" THEN [h |-> h1, err |-> c.err, value |-> 0]
        ELSE [h |-> AddConstraints(c.h, s, << BoolSym(3) >>), err |-> "",
              value |-> c.value]

\* the merge calls of the model
MergeCalls ==
    { MergeCall(1, << 2 >>), MergeCall(1, << 2, 3 >>), MergeCall(1, << >>),
      MergeCall(2, << 3 >>),
      [MergeCall(1, << 2 >>) EXCEPT
          !.plugin_whitelist = [given |-> TRUE, names |-> SomePlugins]],
      [MergeCall(1, << 2 >>) EXCEPT
          !.merge_conditions = [given |-> TRUE,
                                list |-> << << >>, << BoolSym(1), BoolSym(2) >> >>]],
      [MergeCall(1, << 2 >>) EXCEPT !.common_ancestor = 3],
      [MergeCall(1, << 2 >>) EXCEPT !.kwargs = TRUE] }

\* the widen calls of the model
WidenCalls == { << 1, << 2 >> >>, << 1, << 2, 3 >> >>, << 1, << >> >>, << 2, << 3 >> >> }

\* merged, conditions, changed = state.merge(*others, **kwargs)
MergeStep ==
    /\ ops < MaxMergeOps
    /\ \E call \in MergeCalls, ipdb \in BOOLEAN :
       \E r \in {Merge(Heap, call, ipdb)} :
          /\ SetHeap(r.h)
          /\ ops' = ops + 1
          /\ ret' = [NoRet EXCEPT !.op = "merge", !.recv = call.recv,
                                  !.others = call.others, !.err = r.err,
                                  !.value = r.value, !.changed = r.changed,
                                  !.conditions = r.conditions,
                                  !.name = IF call.merge_conditions.given THEN "explicit"
                                           ELSE IF call.plugin_whitelist.given
                                           THEN "whitelist" ELSE ""]
    /\ UNCHANGED << engine_vars, parse_vars, cache_vars, call_vars, proc_vars >>

\* widened, changed = state.widen(*others)
WidenStep ==
    /\ ops < MaxMergeOps
    /\ \E call \in WidenCalls :
       \E r \in {Widen(Heap, call[1], call[2])} :
          /\ SetHeap(r.h)
          /\ ops' = ops + 1
          /\ ret' = [NoRet EXCEPT !.op = "widen", !.recv = call[1],
                                  !.others = call[2], !.err = r.err,
                                  !.value = r.value, !.changed = r.changed]
    /\ UNCHANGED << engine_vars, parse_vars, cache_vars, call_vars, proc_vars >>

\* c = state.copy(), for one of the first two states
CopyCallStep ==
    /\ ops < MaxMergeOps
    /\ \E s \in {1, 2} :
       \E r \in {Copy(Heap, s)} :
          /\ SetHeap(r.h)
          /\ Returned("copy", s, "", << >>, r)
    /\ UNCHANGED << engine_vars, parse_vars, cache_vars, call_vars, proc_vars >>

\* an Exit statement is interpreted in one of the first two states
ExitStatementStep ==
    /\ ops < MaxMergeOps
    /\ \E s \in {1, 2} :
       \E r \in {ExitStatement(Heap, s)} :
          /\ SetHeap(r.h)
          /\ Returned("exit_stmt", s, "", << >>, r)
    /\ UNCHANGED << engine_vars, parse_vars, cache_vars, call_vars, proc_vars >>

NextMerge ==
    \/ MergeStep
    \/ WidenStep
    \/ CopyCallStep
    \/ ExitStatementStep

\* what the three states of a behaviour of SpecMerge are made of: their
\* architectures, their options, their plugins (every state with a solver
\* and globals; the others without globals; the receiver without; the
\* second with globals of another class; none but memory and registers;
\* every state with a unicorn plugin too and the second with a value
\* stored in its memory),
\* which of them were given a false constraint, and whether the first is
\* inside a with_condition scope
Scenario(archs, mode, plugins, unsat, scoped) ==
    [archs |-> archs, mode |-> mode, plugins |-> plugins, unsat |-> unsat,
     scoped |-> scoped]

ArchTriples == { << "X86", "X86", "X86" >>, << "X86", "ARM", "ARM" >>,
                 << "X86", "ARM", "X86" >> }

Scenarios ==
    { Scenario(a, SymbolicMode, p, {}, FALSE) :
        a \in ArchTriples,
        p \in {"same", "others_lack", "receiver_lacks", "differs", "bare", "full"} }
    \cup { Scenario(<< "X86", "X86", "X86" >>, m, "same", u, FALSE) :
             m \in StateModes \cup {{"SYMBOLIC"}}, u \in {{}, {1}, {2, 3}, {1, 2, 3}} }
    \cup { Scenario(a, SymbolicMode, p, {}, TRUE) :
             a \in ArchTriples, p \in {"same", "bare"} }

\* a state gets a solver, and globals of the class given that hold a list
Equip(h, s, with_globals, class) ==
    LET h1 == GetPlugin(h, s, "solver_engine").h
    IN  IF ~with_globals THEN h1
        ELSE IF class = "SimStateGlobals"
        THEN AppendGlobal(SetGlobal(h1, s, "loop_ctrs"), s, "loop_ctrs", s)
        ELSE RegisterPlugin(AllocPlugin(h1, NewPlugin(class)), s, "globals",
                            Len(h1.plugins) + 1)

\* add_constraints(false) in each of the states
RECURSIVE Falsify(_, _)
Falsify(h, states) ==
    IF states = {} THEN h
    ELSE LET s == CHOOSE x \in states : TRUE
         IN  CHOOSE r \in { Falsify(h1, states \ {s}) :
                              h1 \in {AddConstraints(h, s, << BoolFalse >>)} } : TRUE

\* the three states as constructed
Constructed(sc) ==
    CHOOSE r \in { Construct(b, sc.archs[3], sc.mode, NoPlugins) :
                     b \in { Construct(a, sc.archs[2], sc.mode, NoPlugins) :
                               a \in {Construct(EmptyHeap, sc.archs[1], sc.mode, NoPlugins)} } } :
        TRUE

\* state.memory.store(...): the memory of the state holds another value
Store(h, s, v) == [h EXCEPT !.plugins[h.states[s].plugins["memory"]].value = v]

RECURSIVE WithUnicorn(_, _)
WithUnicorn(h, states) ==
    IF states = {} THEN h
    ELSE LET s == CHOOSE x \in states : TRUE
         IN  CHOOSE r \in { WithUnicorn(h1, states \ {s}) :
                              h1 \in {GetPlugin(h, s, "unicorn").h} } : TRUE

\* the three states with their plugins
RECURSIVE Equipped(_, _)
Equipped(h, sc) ==
    IF sc.plugins = "bare" THEN h
    ELSE IF sc.plugins = "full"
    THEN CHOOSE r \in { Store(WithUnicorn(a, {1, 2, 3}), 2, 1) :
                          a \in {Equipped(h, [sc EXCEPT !.plugins = "same"])} } : TRUE
    ELSE CHOOSE r \in
            { Equip(b, 3, sc.plugins # "others_lack", "SimStateGlobals") :
                b \in { Equip(a, 2, sc.plugins # "others_lack",
                              IF sc.plugins = "differs" THEN "SimFastMemory"
                              ELSE "SimStateGlobals") :
                          a \in {Equip(h, 1, sc.plugins # "receiver_lacks",
                                       "SimStateGlobals")} } } : TRUE

InitMerge ==
    /\ InitStateCalls
    /\ \E sc \in Scenarios :
       \E h0 \in {Constructed(sc)} :
       \E h1 \in {Equipped(h0, sc)} :
       \E h2 \in {Falsify(h1, sc.unsat)} :
          InitHeap(IF sc.scoped THEN EnterCondition(h2, 1, BoolSym(0)) ELSE h2)

SpecMerge == InitMerge /\ [][NextMerge]_vars

-----------------------------------------------------------------------------
(* SimState.with_condition: the scopes of one state.  The global condition *)
(* of the state is << >> for None and << c >> for a condition c; every     *)
(* scope that has been entered keeps its old_condition, and `ret` holds    *)
(* these, innermost last, in `conditions`.                                 *)

\* scope entries and exits and constraints added in one behaviour
MaxConditionOps == 4

\* a scope exit that clears the global condition
WithConditionExit_Clears(h, s, old_condition) ==
    [h EXCEPT !.states[s].global_condition = << >>]

\* lines 742-745: entering `with state.with_condition(c):`
WithConditionEnter(h, s, c) ==
    LET old_condition == h.states[s].global_condition
    IN  IF old_condition = << >>
        THEN [h EXCEPT !.states[s].global_condition = << c >>]
        ELSE [GetPlugin(h, s, "solver_engine").h EXCEPT
                 !.states[s].global_condition = << BoolAnd(<< old_condition[1], c >>) >>]

\* lines 747-748: the finally clause, run when the block ends and when it
\* raises
WithConditionExit(h, s, old_condition) ==
    [h EXCEPT !.states[s].global_condition = old_condition]

\* with state.with_condition(c): ...
WithEnterStep ==
    /\ ops < MaxConditionOps
    /\ \E v \in {0, 1} :
          /\ SetHeap(WithConditionEnter(Heap, 1, BoolSym(v)))
          /\ ret' = [NoRet EXCEPT !.op = "with_enter", !.recv = 1, !.value = v,
                        !.conditions = Append(ret.conditions,
                                              sim_states[1].global_condition)]
    /\ ops' = ops + 1
    /\ UNCHANGED << engine_vars, parse_vars, cache_vars, call_vars, proc_vars >>

\* the block of the innermost scope ends, or raises
WithExitStep ==
    /\ ops < MaxConditionOps
    /\ ret.conditions # << >>
    /\ \E raised \in BOOLEAN :
          /\ SetHeap(WithConditionExit(Heap, 1, ret.conditions[Len(ret.conditions)]))
          /\ ret' = [NoRet EXCEPT !.op = "with_exit", !.recv = 1,
                        !.err = IF raised THEN "Exception" ELSE "",
                        !.conditions = SubSeq(ret.conditions, 1, Len(ret.conditions) - 1)]
    /\ ops' = ops + 1
    /\ UNCHANGED << engine_vars, parse_vars, cache_vars, call_vars, proc_vars >>

\* state.add_constraints(x) in the block of a scope, or outside of any
ScopedAddStep ==
    /\ ops < MaxConditionOps
    /\ SetHeap(AddConstraints(Heap, 1, << BoolSym(2) >>))
    /\ ret' = [NoRet EXCEPT !.op = "scoped_add", !.recv = 1,
                            !.conditions = ret.conditions]
    /\ ops' = ops + 1
    /\ UNCHANGED << engine_vars, parse_vars, cache_vars, call_vars, proc_vars >>

NextCondition ==
    \/ WithEnterStep
    \/ WithExitStep
    \/ ScopedAddStep

\* one state, with or without a solver, outside of any scope
InitCondition ==
    /\ InitStateCalls
    /\ \E mode \in {SymbolicMode, {"SYMBOLIC"}} :
       \E h \in {Construct(EmptyHeap, "X86", mode, NoPlugins)} :
          InitHeap(h)

SpecCondition == InitCondition /\ [][NextCondition]_vars

-----------------------------------------------------------------------------
(* pyvex Instruction.parse (pyvex/lifting/util/instr_helper.py): bits and  *)
(* format symbols are the characters "0" and "1" and the letters that name *)
(* arguments; a bit string is a sequence of them.                          *)

\* the longest stream, in bytes
MaxStreamBytes == 3

BitChars == {"0", "1"}

\* string.ascii_letters, as far as the formats below use it
AsciiLetters == {"r", "d", "f", "m"}

\* the unsigned value of a bit string, most significant bit first
RECURSIVE UintOf(_)
UintOf(bits) ==
    IF bits = << >> THEN 0
    ELSE 2 * UintOf(SubSeq(bits, 1, Len(bits) - 1))
            + (IF bits[Len(bits)] = "1" THEN 1 ELSE 0)

\* bitstring.Bits(uint=v, length=n).bin
RECURSIVE BinOf(_, _)
BinOf(v, n) ==
    IF n = 0 THEN << >>
    ELSE Append(BinOf(v \div 2, n - 1), IF v % 2 = 1 THEN "1" ELSE "0")

\* the unsigned value of whole bytes, least significant byte first
RECURSIVE UintleOf(_)
UintleOf(bits) ==
    IF bits = << >> THEN 0
    ELSE UintOf(SubSeq(bits, 1, 8)) + 256 * UintleOf(SubSeq(bits, 9, Len(bits)))

\* bitstring's "hex" of a bit string: a digit for every four bits
HexOf(bits) == [k \in 1..(Len(bits) \div 4) |-> UintOf(SubSeq(bits, 4 * k - 3, 4 * k))]

\* the bits a read or a peek of n bits is about
Ahead(strm, n) == SubSeq(strm.bits, strm.pos + 1, strm.pos + n)

\* bitstrm.peek("bin:n"): ReadError past the end of the stream
PeekBin(strm, n) ==
    IF n > Len(strm.bits) - strm.pos THEN [err |-> "ReadError", bin |-> << >>]
    ELSE [err |-> "", bin |-> Ahead(strm, n)]

\* bitstrm.peek("uintle:n"): little-endian integers are whole bytes
PeekUintle(strm, n) ==
    IF n > Len(strm.bits) - strm.pos THEN [err |-> "ReadError", uint |-> 0]
    ELSE IF n % 8 # 0 THEN [err |-> "InterpretError", uint |-> 0]
    ELSE [err |-> "", uint |-> UintleOf(Ahead(strm, n))]

\* bitstrm.read("hex:n"): hexadecimal is whole digits; the position moves
\* only when the read returns
ReadHex(strm, n) ==
    IF n > Len(strm.bits) - strm.pos THEN [err |-> "ReadError", hex |-> << >>, strm |-> strm]
    ELSE IF n % 4 # 0 THEN [err |-> "InterpretError", hex |-> << >>, strm |-> strm]
    ELSE [err |-> "", hex |-> HexOf(Ahead(strm, n)),
          strm |-> [strm EXCEPT !.pos = @ + n]]

\* instruction bits taken in the order of the stream whatever the endness
InstrBits_StreamOrder(endness, strm, numbits) == PeekBin(strm, numbits)

\* lines 164-170: the bits the format is compared with
InstrBits(endness, strm, numbits) ==
    IF endness = "Iend_LE"
    THEN LET p == PeekUintle(strm, numbits)
         IN  [err |-> p.err, bin |-> IF p.err = "" THEN BinOf(p.uint, numbits) ELSE << >>]
    ELSE PeekBin(strm, numbits)

\* line 171
EmptyData(bin_format) ==
    [c \in { bin_format[i] : i \in 1..Len(bin_format) } \cap AsciiLetters |-> << >>]

\* lines 172-179: the loop over zip(self.bin_format, instr_bits), from the
\* i-th pair on
RECURSIVE MatchBits(_, _, _, _)
MatchBits(bin_format, instr_bits, i, data) ==
    IF i > Min(Len(bin_format), Len(instr_bits)) THEN [err |-> "", data |-> data]
    ELSE LET c == bin_format[i]
             b == instr_bits[i]
         IN  IF c \in BitChars
             THEN IF b # c THEN [err |-> "ParseError", data |-> data]
                  ELSE MatchBits(bin_format, instr_bits, i + 1, data)
             ELSE IF c \in AsciiLetters
             THEN MatchBits(bin_format, instr_bits, i + 1,
                            [data EXCEPT ![c] = Append(@, b)])
             ELSE [err |-> "ValueError", data |-> data]

\* lines 152-159: the hook of the base class
MatchInstruction(data, strm) == data

\* Instruction.parse(bitstrm), lines 162-189, for an arch of the given
\* instruction endness: what it raises, the data it returns, the rawbits it
\* keeps and the stream as it leaves it
Parse(endness, bin_format, strm) ==
    LET numbits    == Len(bin_format)
        instr_bits == InstrBits(endness, strm, numbits)
        matched    == MatchBits(bin_format, instr_bits.bin, 1, EmptyData(bin_format))
        raw        == ReadHex(strm, numbits)
        failed(e)  == [err |-> e, data |-> << >>, rawbits |-> << >>, strm |-> strm]
    IN  IF instr_bits.err # "" THEN failed(instr_bits.err)
        ELSE IF matched.err # "" THEN failed(matched.err)
        ELSE IF raw.err # "" THEN failed(raw.err)
        ELSE [err |-> "", data |-> MatchInstruction(matched.data, strm),
              rawbits |-> raw.hex, strm |-> raw.strm]

\* the format of the class's documentation, 0010rrrrddddffmm
DocFormat ==
    << "0", "0", "1", "0", "r", "r", "r", "r", "d", "d", "d", "d", "f", "f", "m", "m" >>

\* the bit formats of the Instruction subclasses: two bytes, one byte with
\* the arguments' bits interleaved, a byte and a half, six bits
BinFormats ==
    { DocFormat,
      << "0", "0", "1", "r", "d", "r", "d", "r" >>,
      << "0", "0", "1", "0", "r", "r", "r", "r", "d", "d", "d", "d" >>,
      << "0", "0", "1", "0", "r", "r" >> }

\* the bytes of the streams: 0x2d, 0x69, 0x96
StreamBytes ==
    { << "0", "0", "1", "0", "1", "1", "0", "1" >>,
      << "0", "1", "1", "0", "1", "0", "0", "1" >>,
      << "1", "0", "0", "1", "0", "1", "1", "0" >> }

RECURSIVE Flatten(_)
Flatten(bytes) == IF bytes = << >> THEN << >> ELSE Head(bytes) \o Flatten(Tail(bytes))

\* the streams of one byte to MaxStreamBytes bytes
Streams ==
    { Flatten(bytes) : bytes \in UNION { [1..n -> StreamBytes] : n \in 1..MaxStreamBytes } }

\* cls(bitstrm, arch, addr) for an Instruction subclass with the format
\* bin_format: lines 75-78, the constructor calls parse
InstructionStep ==
    \E bin_format \in BinFormats :
    \E r \in {Parse(instruction_endness, bin_format, bitstrm)} :
        /\ instr' = [bin_format |-> bin_format, pos |-> bitstrm.pos, err |-> r.err,
                     data |-> r.data, rawbits |-> r.rawbits]
        /\ bitstrm' = r.strm
        /\ UNCHANGED << engine_vars, cache_vars, call_vars, proc_vars, heap_vars,
                        instruction_endness >>

NextParse == InstructionStep

\* a stream at its start, for an arch of either endness
InitParse ==
    /\ use_cache = TRUE
    /\ stop_points = NoStops
    /\ arch = "X86"
    /\ support_selfmodifying_code = FALSE
    /\ single_step = FALSE
    /\ default_opt_level = 1
    /\ cache_size = 2
    /\ InitCache
    /\ InitProcess
    /\ InitNoStates
    /\ bitstrm \in { [bits |-> bits, pos |-> 0] : bits \in Streams }
    /\ instruction_endness \in {"Iend_BE", "Iend_LE"}
    /\ instr = NoInstruction

SpecParse == InitParse /\ [][NextParse]_vars

-----------------------------------------------------------------------------
(* Properties of lift and of the block cache *)

IsLift(c) == c.op = "lift"
KeyOf(c) == CacheKey(c.args, c.norm, c.norm.size)
Cold(c) == c.lifts # << >>

\* the same call on an engine with the cache disabled
LiftUncached(a) == Lift([Eng EXCEPT !.use_cache = FALSE], a)

\* an instruction boundary after the first one whose address is a stop point
StopsInside(irsb) ==
    IF stop_points.isNone THEN {}
    ELSE { irsb.statements[i].addr + irsb.statements[i].delta :
             i \in { j \in 2..Len(irsb.statements) :
                       /\ irsb.statements[j].tag = "IMark"
                       /\ \E k \in 1..(j - 1) : irsb.statements[k].tag = "IMark"
                       /\ (irsb.statements[j].addr + irsb.statements[j].delta)
                             \in stop_points.pts } }

\* what the external lifter returned for the arguments l
Lifted(l) ==
    IRSB(0, [img |-> l.img], l.mem_addr, l.num_bytes, l.num_inst, l.bytes_offset,
         l.opt_level)

\* two successive lift calls that got as far as the cache lookup, the first
\* returning a block, with the same cache key
SameKeyTwice ==
    /\ IsLift(prev) /\ prev.ok
    /\ IsLift(last) /\ last.keyed
    /\ KeyOf(prev) = KeyOf(last)

\* C1 as stated: two successive lift calls that normalise to the same cache
\* key return, with the cache enabled, the same block instance without a
\* second call to the lifter and, with the cache disabled, blocks of equal
\* contents after a lifter call each.
C1_SameKeySameBlock ==
    SameKeyTwice =>
        IF use_cache
        THEN last.ok /\ last.irsb.id = prev.irsb.id /\ ~Cold(last)
        ELSE last.ok =>
                /\ Cold(prev) /\ Cold(last)
                /\ last.irsb.id # prev.irsb.id
                /\ Contents(last.irsb) = Contents(prev.irsb)

\* C1 amended: as C1, the contents of the two blocks lifted with the cache
\* disabled being equal when both calls were given the same byte source
\* (state, page permissions and memory image arguments).
C1_IdempotentCaching ==
    SameKeyTwice =>
        IF use_cache
        THEN last.ok /\ last.irsb.id = prev.irsb.id /\ ~Cold(last)
        ELSE last.ok =>
                /\ Cold(prev) /\ Cold(last)
                /\ last.irsb.id # prev.irsb.id
                /\ SourceOf(prev.args) = SourceOf(last.args)
                      => Contents(last.irsb) = Contents(prev.irsb)

C1_Witness_Cached == SameKeyTwice /\ use_cache /\ last.ok /\ prev.args # last.args
C1_Witness == C1_Witness_Cached /\ last.irsb.size > 0

\* C2 as stated: every lift call returns, with the cache enabled, a block
\* equal to the one the same call returns with the cache disabled (and
\* fails exactly when that call fails).
C2_CacheTransparent ==
    IsLift(last) =>
        /\ last.ok = LiftUncached(last.args).ok
        /\ last.ok => Contents(last.irsb) = Contents(LiftUncached(last.args).irsb)

\* C2 amended: as C2, for sequences of calls that are all given the same byte
\* source (state, page permissions and memory image arguments).
C2_CacheTransparentOneSource ==
    (IsLift(last) /\ Cardinality(sources) <= 1) =>
        /\ last.ok = LiftUncached(last.args).ok
        /\ last.ok => Contents(last.irsb) = Contents(LiftUncached(last.args).irsb)

C2_Witness ==
    /\ IsLift(last) /\ last.ok /\ use_cache /\ ~Cold(last)
    /\ Cardinality(sources) = 1
    /\ prev.args # last.args

\* C3: a block lift returns, and every block the cache holds, has no stop
\* point at an instruction boundary after its first one; when the block the
\* lifter first returned has a stop point inside it, S being the first, the
\* returned block has size S - its address and its default exit targets S.
C3_StopPointTruncation ==
    /\ \A i \in 1..Len(block_cache) : StopsInside(block_cache[i].val) = {}
    /\ (IsLift(last) /\ last.ok) =>
          /\ StopsInside(last.irsb) = {}
          /\ (Cold(last) /\ StopsInside(Lifted(last.lifts[1])) # {}) =>
                /\ last.irsb.size = MinOf(StopsInside(Lifted(last.lifts[1]))) - last.irsb.addr
                /\ last.irsb.next = MinOf(StopsInside(Lifted(last.lifts[1])))
                /\ last.irsb.jumpkind = "Ijk_Boring"

C3_Witness ==
    /\ IsLift(last) /\ last.ok /\ Cold(last)
    /\ StopsInside(Lifted(last.lifts[1])) # {}
    /\ last.norm.thumb = 1

\* the place of the last use of key k in the log of cache reads and writes
LastUse(k) == MaxOf({ i \in 1..Len(use_log) : use_log[i] = k })

\* the cached key whose last use is the oldest
LruKey ==
    CHOOSE k \in CacheKeys(block_cache) :
        \A j \in CacheKeys(block_cache) : LastUse(k) <= LastUse(j)

\* C4: the cache never holds more than cache_size entries; an insertion into
\* a full cache evicts exactly the least recently used entry, an insertion
\* into a cache that is not full evicts nothing; clear_cache leaves the cache
\* empty and both counters zero.
C4_CacheBoundedLru ==
    [][ /\ Len(block_cache') <= cache_size
        /\ last'.op = "clear" =>
              block_cache' = << >> /\ cache_hit_count' = 0 /\ cache_miss_count' = 0
        /\ (IsLift(last') /\ ~(CacheKeys(block_cache') \subseteq CacheKeys(block_cache))) =>
              IF Len(block_cache) = cache_size
              THEN CacheKeys(block_cache) \ CacheKeys(block_cache') = {LruKey}
              ELSE CacheKeys(block_cache) \subseteq CacheKeys(block_cache')
      ]_vars

\* a full cache of two entries after an eviction, the surviving old entry
\* being one that a hit had made the most recently used
C4_Witness ==
    /\ cache_size = 2 /\ Len(block_cache) = 2
    /\ Cardinality({ use_log[i] : i \in 1..Len(use_log) }) = 3
    /\ use_log[1] \in CacheKeys(block_cache)

\* C5: every call lift makes to the external lifter passes a byte count of
\* at most VEX_IRSB_MAX_SIZE and an instruction cap of at most
\* VEX_IRSB_MAX_INST.
C5_LifterWithinCaps ==
    IsLift(last) =>
        \A i \in 1..Len(last.lifts) :
            /\ last.lifts[i].num_bytes <= VEX_IRSB_MAX_SIZE
            /\ last.lifts[i].num_inst <= VEX_IRSB_MAX_INST

\* the address a call asks for
AskedAddr(a) == IF a.addr = None THEN a.state.ip ELSE a.addr

\* C6: on ARM an odd address forces thumb mode, thumb mode clears the low
\* address bit, and a call at the odd address A+1 has the cache key and the
\* lifter arguments of the call at A with thumb set; elsewhere a thumb
\* request is dropped, the address is kept, and the call ends as it does
\* without the request.
C6_ThumbNormalisation ==
    (IsLift(last) /\ last.keyed) =>
        LET a == last.args
            sib == [a EXCEPT !.addr = AskedAddr(a) - 1, !.thumb = TRUE]
            plain == [a EXCEPT !.thumb = FALSE]
        IN  IF arch = "ARM"
            THEN /\ (AskedAddr(a) % 2 = 1 \/ a.thumb) <=> last.norm.thumb = 1
                 /\ last.norm.thumb = 1 => last.norm.addr = 2 * (AskedAddr(a) \div 2)
                 /\ last.norm.thumb = 0 => last.norm.addr = AskedAddr(a)
                 /\ \A i \in 1..Len(last.lifts) :
                       /\ last.lifts[i].mem_addr = last.norm.addr + last.norm.thumb
                       /\ last.lifts[i].bytes_offset = last.norm.thumb
                 /\ AskedAddr(a) % 2 = 1 =>
                       /\ CacheKey(sib, Normalise(Eng, sib), Normalise(Eng, sib).size)
                             = KeyOf(last)
                       /\ LiftUncached(sib).lifts = LiftUncached(a).lifts
            ELSE /\ last.norm.thumb = 0
                 /\ last.norm.addr = AskedAddr(a)
                 /\ \A i \in 1..Len(last.lifts) :
                       /\ last.lifts[i].mem_addr = AskedAddr(a)
                       /\ last.lifts[i].bytes_offset = 0
                 /\ LiftUncached(plain).ok = last.ok

C6_Witness ==
    /\ IsLift(last) /\ last.ok /\ Cold(last)
    /\ arch = "ARM" /\ AskedAddr(last.args) % 2 = 1 /\ ~last.args.thumb

\* the call got as far as getting its bytes
GotBytes(c) == IsLift(c) /\ (Cold(c) \/ c.err = "SimEngineError")

\* the state's page is one whose bytes may differ from the static image
LivePage(st) == st.perms.kind # "concrete" \/ Writable(st.perms)

\* C7: lift reads no memory when given explicit bytes; given a state and no
\* explicit bytes it reads the static image only if self-modifying-code
\* support is off and the page permissions are concrete and not writable,
\* and reads the state's memory whenever the support is on or the
\* permissions are symbolic, unknown or writable.
C7_ByteSource ==
    GotBytes(last) =>
        IF last.args.insn_bytes.given
        THEN ~last.readClemory /\ ~last.readState
        ELSE last.args.state.present =>
                /\ last.readClemory =>
                      ~support_selfmodifying_code /\ ~LivePage(last.args.state)
                /\ (support_selfmodifying_code \/ LivePage(last.args.state)) =>
                      last.readState

-----------------------------------------------------------------------------
(* Properties of the statement walk *)

\* the statement at index i was handed to _handle_statement in this pass
InPass(i) == \E k \in 1..Len(trace.pass) : trace.pass[k].idx = i

InOrder(pass) == \A j, k \in 1..Len(pass) : j < k => pass[j].idx < pass[k].idx

Whitelisted(i) == args.whitelist.isNone \/ i \in args.whitelist.idx

\* C8 as stated: when a pass over a block has ended, the statement at index i
\* was interpreted if and only if skip_stmts <= i <= last_stmt and i passes
\* the whitelist, and the interpreted statements ran in increasing order.
C8_InterpretedIffSelected ==
    (pc \in {"exits", "done"} /\ args.last_stmt # None) =>
        /\ \A i \in 0..(NumStmts - 1) :
              InPass(i) <=> (args.skip_stmts <= i /\ i <= args.last_stmt /\ Whitelisted(i))
        /\ InOrder(trace.pass)

\* C8, amended: every interpreted statement has skip_stmts <= i, i <= last_stmt
\* (when last_stmt is given) and passes the whitelist; every statement the
\* walk has gone past that is at or after the skip index in effect, not after
\* last_stmt and whitelisted was interpreted; the order is increasing.  The
\* skip index in effect is skip_stmts, raised only under SUPER_FASTPATH.
C8_InterpretedUpToStop ==
    /\ \A k \in 1..Len(trace.pass) :
          /\ args.skip_stmts <= trace.pass[k].idx
          /\ args.last_stmt = None \/ trace.pass[k].idx <= args.last_stmt
          /\ Whitelisted(trace.pass[k].idx)
    /\ \A i \in 0..(locals.stmt_idx - 1) :
          ( /\ locals.skip_stmts <= i
            /\ args.last_stmt = None \/ i <= args.last_stmt
            /\ Whitelisted(i) ) => InPass(i)
    /\ InOrder(trace.pass)
    /\ locals.skip_stmts >= args.skip_stmts
    /\ "SUPER_FASTPATH" \notin state.options => locals.skip_stmts = args.skip_stmts

\* a finished pass that skipped by index, cut at last_stmt and filtered by a
\* whitelist, and still interpreted an instruction
C8_Witness ==
    /\ pc = "done"
    /\ args.skip_stmts > 0
    /\ args.last_stmt < NumStmts - 1
    /\ ~args.whitelist.isNone
    /\ Len(trace.pass) >= 2
    /\ trace.filtered

\* a successor made from the block's next expression, or the state filed as
\* unsatisfiable because that expression could not be evaluated
IsDefaultExit(s) == s.is_default /\ s.jumpkind # "Ijk_FakeRet"

DefaultComputed ==
    \/ \E k \in 1..Len(successors.all_successors) :
          IsDefaultExit(successors.all_successors[k])
    \/ \E k \in 1..Len(successors.unsat_successors) :
          successors.unsat_successors[k].id = 0

SolverFailure == \E k \in 1..Len(trace.pass) : trace.pass[k].outcome = "solver"

\* C9: when a process call has completed, the default successor was computed
\* exactly when no solver failure stopped the walk and last_stmt is at or
\* beyond the index of the block's final statement.
C9_DefaultExitIffNotCut ==
    pc = "done" =>
        (DefaultComputed <=> (~SolverFailure /\ args.last_stmt >= NumStmts - 1))

BranchSuccessors == SelectSeq(successors.all_successors, LAMBDA s : ~s.is_default)

\* C10: at every point of a process call the running guard is the conjunction
\* of the negations of the conditions of the Exit statements interpreted so
\* far in the call, in order (true before the first); the branch successors
\* are, in order, guarded by exactly those conditions; the default successor
\* carries the final running guard.
C10_RunningGuard ==
    /\ state.scratch.guard = [kind |-> "and_not", terms |-> trace.exits]
    /\ Len(BranchSuccessors) = Len(trace.exits)
    /\ \A j \in 1..Len(BranchSuccessors) :
          BranchSuccessors[j].guard = [kind |-> "cond", terms |-> << trace.exits[j] >>]
    /\ \A k \in 1..Len(successors.all_successors) :
          IsDefaultExit(successors.all_successors[k]) =>
              successors.all_successors[k].guard =
                  [kind |-> "and_not", terms |-> trace.exits]

\* a completed call that ignored exit guards, interpreted an exit, lifted
\* again, interpreted another exit and recorded the default successor
C10_Witness ==
    /\ pc = "done"
    /\ "IGNORE_EXIT_GUARDS" \in state.options
    /\ trace.relifts >= 1
    /\ Len(trace.exits) >= 2
    /\ \E k \in 1..Len(successors.all_successors) :
          IsDefaultExit(successors.all_successors[k])

-----------------------------------------------------------------------------
(* Properties of exits, errors and re-lifts *)

\* C11 as stated: with IGNORE_EXIT_GUARDS set, every interpreted Exit has its
\* branch successor recorded, the running guard stays as it was before the
\* first exit (true), and no constraint is added to the continuing state.
C11_IgnoredGuardUnchanged ==
    "IGNORE_EXIT_GUARDS" \in state.options =>
        /\ Len(BranchSuccessors) = Len(trace.exits)
        /\ state.scratch.guard = claripy_true
        /\ state.constraints = << >>

\* C11, amended: with IGNORE_EXIT_GUARDS set, every interpreted Exit has its
\* branch successor recorded and no constraint is added to the continuing
\* state, but the running guard is extended by the negation of each exit's
\* condition; without the option the same negations are also the
\* constraints added to the continuing state.
C11_IgnoredGuardNoConstraint ==
    /\ Len(BranchSuccessors) = Len(trace.exits)
    /\ state.scratch.guard.terms = trace.exits
    /\ "IGNORE_EXIT_GUARDS" \in state.options => state.constraints = << >>
    /\ "IGNORE_EXIT_GUARDS" \notin state.options => state.constraints = trace.exits

\* a call that ignores exit guards has interpreted an exit and gone on
C11_Witness ==
    /\ "IGNORE_EXIT_GUARDS" \in state.options
    /\ Len(trace.exits) >= 1
    /\ pc = "stmt"

\* the process call was given no statement filter: skip_stmts, last_stmt and
\* whitelist are the defaults, and SUPER_FASTPATH does not raise the skip
NoStatementFilter ==
    /\ args.skip_stmts = 0
    /\ args.last_stmt = LAST_STMT_DEFAULT
    /\ args.whitelist.isNone
    /\ "SUPER_FASTPATH" \notin args.options

\* the Exit statements of the block being walked
ExitIndices == { i \in 0..(NumStmts - 1) : Stmt(i).tag = "Exit" }

\* what was submitted to the collector before lines 280-316 ran
Candidates == SelectSeq(successors.all_successors, LAMBDA s : s.jumpkind # "Ijk_FakeRet")

\* C12: a completed call with no statement filter, no solver failure and no
\* re-lift over a block with k Exit statements submitted exactly k+1
\* candidates before post-processing: the k branch successors in statement
\* order, one at each Exit statement, then the default exit.
C12_ExitAccounting ==
    (pc = "done" /\ NoStatementFilter /\ ~SolverFailure /\ trace.relifts = 0) =>
        /\ Len(Candidates) = Cardinality(ExitIndices) + 1
        /\ \A j \in 1..(Len(Candidates) - 1) :
              /\ ~Candidates[j].is_default
              /\ Candidates[j].exit_stmt_idx \in ExitIndices
              /\ j > 1 => Candidates[j - 1].exit_stmt_idx < Candidates[j].exit_stmt_idx
        /\ Candidates[Len(Candidates)].is_default

\* such a call over a block with an Exit statement that ends in a call, with
\* a fake return added by the post-processing
C12_Witness ==
    /\ pc = "done"
    /\ NoStatementFilter
    /\ ~SolverFailure
    /\ trace.relifts = 0
    /\ ExitIndices # {}
    /\ Len(Candidates) < Len(successors.all_successors)

\* C13: once a statement has raised a solver-level error, it is the last
\* statement of the pass that was interpreted, no default successor is
\* produced, the branch successors recorded before it are all kept, and the
\* call goes on to complete: no error is raised and, when it is done, the
\* processed flag is set.
C13_SolverErrorStopsWalk ==
    SolverFailure =>
        /\ trace.pass[Len(trace.pass)].outcome = "solver"
        /\ \A k \in 1..(Len(trace.pass) - 1) : trace.pass[k].outcome = "ok"
        /\ ~DefaultComputed
        /\ Len(BranchSuccessors) = Len(trace.exits)
        /\ \A j \in 1..Len(BranchSuccessors) :
              BranchSuccessors[j].guard.terms = << trace.exits[j] >>
        /\ pc \in {"exits", "done"}
        /\ locals.err = ""
        /\ pc = "done" => successors.processed

\* a completed call in which a solver error came after an interpreted exit,
\* in a block that would otherwise have had its default exit
C13_Witness ==
    /\ pc = "done"
    /\ SolverFailure
    /\ Len(trace.exits) >= 1
    /\ HasDefaultExit(NumStmts, args.last_stmt)
    /\ successors.processed

\* C14: whenever a process call is about to lift again after a
\* self-modification, the size it passes is the caller's size less the bytes
\* between the original block address and the new start address, the
\* instruction cap it passes is the caller's cap less the instructions
\* executed so far in the call, no address is marked dirty and the stale
\* block is gone.
C14_ReliftBudgets ==
    (pc = "lift" /\ trace.relifts >= 1) =>
        /\ args.size # None => locals.size = args.size - (locals.addr - successors.addr)
        /\ args.num_inst # None =>
              locals.num_inst = args.num_inst - state.scratch.num_insns
        /\ state.scratch.dirty_addrs = {}
        /\ ~locals.has_irsb

\* C15: no statement is interpreted from a block lifted before a byte of its
\* instruction was written in the same call: a statement handed to
\* _handle_statement while its instruction holds a dirty address is an
\* instruction mark that aborts the pass, and the lift that follows starts at
\* that instruction's address.
C15_NoStaleStatement ==
    /\ \A k \in 1..Len(trace.pass) :
          trace.pass[k].dirty => trace.pass[k].outcome = "relift"
    /\ (pc = "lift" /\ trace.relifts >= 1) => locals.addr = state.scratch.ins_addr

\* C16: once a self-modification has been detected in a process call that was
\* given explicit bytes, the call has failed with SimEngineError: it lifted
\* at most once, it never lifts again and the processed flag is not set.
C16_NoReliftOfGivenBytes ==
    (args.insn_bytes.given /\ trace.relifts >= 1) =>
        /\ pc = "raised"
        /\ locals.err = "SimEngineError"
        /\ calls <= 1
        /\ ~successors.processed

\* a call given explicit bytes has stopped at an instruction it overwrote
C16_Witness ==
    /\ args.insn_bytes.given
    /\ trace.relifts >= 1
    /\ trace.pass[Len(trace.pass)].outcome = "relift"
    /\ pc = "raised"
    /\ calls = 1

\* the fake returns made for the successor s
FakeReturnsOf(s) ==
    { j \in 1..Len(successors.all_successors) :
        /\ successors.all_successors[j].jumpkind = "Ijk_FakeRet"
        /\ successors.all_successors[j].copy_of = s.id }

\* C17: after a process call with DO_RET_EMULATION and without CALLLESS,
\* every successor whose jump kind is a call or a system call is still there
\* and has exactly one fake-return successor that is a copy of it, targets
\* the address of the block plus its size, is guarded true with
\* TRUE_RET_EMULATION_GUARD and false without it, and has its stack pointer
\* one word up only for a call on an architecture whose call pushes the
\* return address.
C17_ReturnEmulation ==
    (pc = "done" /\ "DO_RET_EMULATION" \in state.options
                 /\ "CALLLESS" \notin state.options) =>
        \A k \in 1..Len(successors.all_successors) :
            LET s == successors.all_successors[k]
            IN  IsCallOrSys(s.jumpkind) =>
                  /\ Cardinality(FakeReturnsOf(s)) = 1
                  /\ \A j \in FakeReturnsOf(s) :
                        LET r == successors.all_successors[j]
                        IN  /\ r.target = locals.irsb.addr + locals.irsb.size
                            /\ r.guard = IF "TRUE_RET_EMULATION_GUARD" \in state.options
                                         THEN claripy_true ELSE claripy_false
                            /\ r.sp = IF s.jumpkind = "Ijk_Call" /\ arch = "X86"
                                      THEN s.sp + ArchBytes ELSE s.sp

\* the five lists of the successors, one after the other
EveryList ==
    successors.all_successors \o successors.successors \o successors.flat_successors
        \o successors.unsat_successors \o successors.unconstrained_successors

\* the call exits of the finished call: converted or not, they are the
\* default exits that are not fake returns
ConvertedExits ==
    SelectSeq(successors.all_successors,
              LAMBDA s : s.jumpkind = "Ijk_Ret" /\ s.is_default)

\* C18: after a process call with CALLLESS no successor on any list has the
\* jump kind call; a converted exit is a return to the address right after
\* the block, is on no unconstrained list, and has no fake return even with
\* DO_RET_EMULATION.
C18_Callless ==
    (pc = "done" /\ "CALLLESS" \in state.options) =>
        /\ \A k \in 1..Len(EveryList) : EveryList[k].jumpkind # "Ijk_Call"
        /\ \A k \in 1..Len(ConvertedExits) :
              /\ ConvertedExits[k].target = locals.irsb.addr + locals.irsb.size
              /\ FakeReturnsOf(ConvertedExits[k]) = {}
              /\ \A j \in 1..Len(successors.unconstrained_successors) :
                    successors.unconstrained_successors[j].id # ConvertedExits[k].id

\* the working state itself is on the list
HoldsState(list) == \E k \in 1..Len(list) : list[k].id = 0

\* C19: a process call that was given a whitelist, the empty one included,
\* and came to its end returns successors that are not empty: when no exit
\* was recorded, the working state itself is on the flat list.
C19_WhitelistNeverEmpty ==
    (pc = "done" /\ ~args.whitelist.isNone) =>
        /\ ~IsEmpty(successors)
        /\ successors.all_successors = << >> => HoldsState(successors.flat_successors)

\* the state object the caller handed to process, as it was at the call
GivenState(p) == WorkState(p.options)

\* the state object the caller handed to process, as it is now: process
\* works on a copy of it, and on the object itself when the call is inline
InputState == IF args.inline THEN state ELSE GivenState(args)

\* C20: when a process call ends in a fatal error, the state object the
\* caller passed in is as it was before the call.
C20_InputStateUnmodified ==
    pc = "raised" => InputState = GivenState(args)

\* the successors whose return target the call made up: the fake returns of
\* return emulation and the call exits the call-less policy converted
SynthesizedReturns ==
    SelectSeq(successors.all_successors,
              LAMBDA s : s.jumpkind = "Ijk_FakeRet" \/ (s.jumpkind = "Ijk_Ret" /\ s.is_default))

\* the process call that has come to its end re-lifted at least once
Relifted == pc = "done" /\ trace.relifts >= 1

\* C38: after a process call that re-lifted at least once, the return target
\* synthesized by return emulation or by the call-less policy and the
\* block-size artifact refer to the same block: the target is the start
\* address of the last lifted block plus its size.
C38_ReturnTargetOfLastBlock ==
    Relifted =>
        /\ successors.irsb_size = locals.irsb.size
        /\ \A k \in 1..Len(SynthesizedReturns) :
              SynthesizedReturns[k].target = locals.irsb.addr + successors.irsb_size

\* the artifact alone is the size of the last lifted block
C38_ArtifactOfLastBlock == Relifted => successors.irsb_size = locals.irsb.size

\* the step is a retry: the pass was abandoned and the call lifts again
Retries == trace'.relifts = trace.relifts + 1 /\ pc' = "lift"

\* a process call has begun and has neither returned nor raised
Running == pc \notin {"idle", "done", "raised"}

\* how far the call is in the pass over its block: the lift, the checks, the
\* artifacts, the statements one by one, the exits
Position ==
    CASE pc = "lift"  -> 0
      [] pc = "check" -> 1
      [] pc = "irsb"  -> 2
      [] pc = "stmt"  -> 3 + locals.stmt_idx
      [] pc = "exits" -> 3 + NumStmts
      [] OTHER        -> 4 + NumStmts

\* the steps of _process after the lift: the code runs on from each of them
AfterLift ==
    \/ ProcessGiven
    \/ ProcessCheck
    \/ HandleIrsbBegin
    \/ SkipStatement
    \/ HandleIMark
    \/ HandleIMarkRelift
    \/ HandleExit
    \/ HandleEffect
    \/ StatementSolverError
    \/ StatementError
    \/ HandleIrsbEnd

\* C35: every self-modification retry lifts again at an address strictly
\* greater than the start address of the block it abandons; the retries of a
\* call are no more than the addresses between its start and the top of
\* memory; every other step of a running call is a step forward in the pass
\* over the block, which is finite, and a running call can always take a
\* step: the call comes to its end, it returns or it raises.
C35_RetriesAdvance ==
    /\ [][Retries => (locals'.addr > locals.irsb.addr /\ locals'.addr > locals.addr)]_vars
    /\ [][(Running /\ ~Retries) =>
              (locals'.addr = locals.addr /\ Position' > Position)]_vars
    /\ [](Running =>
              /\ trace.relifts <= locals.addr - successors.addr
              /\ locals.addr < MemTop
              /\ (pc = "lift" /\ ~locals.has_irsb) \/ ENABLED AfterLift)

\* a call that lifted again twice has returned
C35_Witness == pc = "done" /\ trace.relifts >= 2

\* the places in the log of breakpoints of the events of one kind
EventsAt(event, when) ==
    { i \in 1..Len(trace.events) :
        trace.events[i].event = event /\ trace.events[i].when = when }

\* the place of the first instruction before-breakpoint after place i, or
\* one past the end of the log
NextBefore(i) ==
    MinOf({ j \in EventsAt("instruction", "before") : j > i } \cup {Len(trace.events) + 1})

\* every instruction after-breakpoint comes after a before-breakpoint of the
\* same instruction
AfterHasBefore ==
    \A j \in EventsAt("instruction", "after") :
        \E i \in EventsAt("instruction", "before") :
            i < j /\ trace.events[i].what = trace.events[j].what

\* an instruction whose before-breakpoint fired gets one after-breakpoint
\* before the next instruction's before-breakpoint, or before the pass ends
BeforeHasOneAfter ==
    \A i \in EventsAt("instruction", "before") :
        (NextBefore(i) <= Len(trace.events) \/ pc \in {"exits", "done"}) =>
            Cardinality({ j \in EventsAt("instruction", "after") :
                            /\ i < j /\ j < NextBefore(i)
                            /\ trace.events[j].what = trace.events[i].what }) = 1

\* the block's before-breakpoint fires once, before every other event, and
\* its after-breakpoint only when the call returns
BlockEvents ==
    /\ Running \/ pc \in {"done", "raised"} =>
          /\ EventsAt("irsb", "before") = {1}
          /\ trace.events[1].what = successors.addr
    /\ EventsAt("irsb", "after") # {} =>
          /\ pc = "done"
          /\ EventsAt("irsb", "after") = {Len(trace.events)}

\* C39: within one process call, for any statement filter, every instruction
\* after-breakpoint is preceded by a before-breakpoint for the same
\* instruction address, every instruction whose before-breakpoint fired gets
\* exactly one after-breakpoint before the next instruction's
\* before-breakpoint or before the end of the pass, the block's
\* before-breakpoint fires once before any statement event, and the block's
\* after-breakpoint fires only when the call completes without a fatal
\* error.
C39_BreakpointOrder == AfterHasBefore /\ BeforeHasOneAfter /\ BlockEvents

\* the same for the calls that walk every statement of their blocks and meet
\* no solver error
C39_BreakpointOrderUnfiltered ==
    (NoStatementFilter /\ ~SolverFailure) =>
        AfterHasBefore /\ BeforeHasOneAfter /\ BlockEvents

-----------------------------------------------------------------------------
(* Properties of SimState *)

\* the last call was get_plugin or an attribute access
GotPlugin(r) == r.op \in {"get_plugin", "getattr"}

\* C21: get_plugin(name) returns the plugin registered under the name if
\* there is one and changes nothing; otherwise, for a defaultable name, it
\* returns without an error a new instance of the default class, bound to
\* the state and registered under the name; a repeated call returns the same
\* instance; no other registration, of this state or of another, changes.
C21_GetPlugin ==
    [][(GotPlugin(ret') /\ ops' = ops + 1) =>
        LET s == ret'.recv
            n == ret'.name
            had == sim_states[s].plugins[n]
        IN  /\ had # 0 =>
                /\ ret'.err = "" /\ ret'.value = had
                /\ sim_states' = sim_states /\ plugin_objs' = plugin_objs
            /\ (had = 0 /\ n \in Defaultable) =>
                /\ ret'.err = ""
                /\ ret'.value = Len(plugin_objs) + 1
                /\ Len(plugin_objs') = Len(plugin_objs) + 1
                /\ plugin_objs'[ret'.value].class = DefaultClass(n)
                /\ plugin_objs'[ret'.value].state = s
                /\ sim_states'[s].plugins[n] = ret'.value
            /\ \A t \in StateIds, m \in PluginNames :
                  (t # s \/ m # n) => sim_states'[t].plugins[m] = sim_states[t].plugins[m]
            /\ (GotPlugin(ret) /\ ret.recv = s /\ ret.name = n /\ ret.err = "") =>
                  ret'.value = ret.value
    ]_vars

\* get_plugin made a plugin by default, registered it and returned it
C21_Witness ==
    /\ ret.op = "get_plugin" /\ ret.err = "" /\ ret.name = "globals"
    /\ ret.value = Len(plugin_objs)
    /\ plugin_objs[ret.value].class = "SimStateGlobals"
    /\ plugin_objs[ret.value].inited = 1
    /\ sim_states[ret.recv].plugins["globals"] = ret.value

\* the last step changed something in place through one state
InPlaceChange(r) ==
    r.op \in {"set_global", "append_global", "add_option", "append_ip_constraint"}

\* C22: c = s.copy() has the plugin names of s, and no in-place change made
\* later through one state (to what a plugin holds, the values nested in
\* globals included, to the options, to the list of ip constraints) can be
\* seen through another state.
C22_CopyIsolation ==
    [][/\ (ret'.op = "copy" /\ ret'.err = "" /\ ops' = ops + 1) =>
            \A n \in PluginNames :
                (sim_states'[ret'.value].plugins[n] # 0) <=>
                    (sim_states[ret'.recv].plugins[n] # 0)
       /\ (InPlaceChange(ret') /\ ops' = ops + 1) =>
            \A t \in StateIds : t # ret'.recv => View(Heap', t) = View(Heap, t)
    ]_vars

\* the state works with the cached flag
Approximate(st) == "ABSTRACT_SOLVER" \in st.options \/ "SYMBOLIC" \notin st.options

\* how many of the constraints before the first false one are neither true
\* nor false
RECURSIVE Narrowings(_, _)
Narrowings(cargs, i) ==
    IF i > Len(cargs) \/ VsaIsFalse(cargs[i]) THEN 0
    ELSE (IF VsaIsTrue(cargs[i]) THEN 0 ELSE 1) + Narrowings(cargs, i + 1)

RegistersValue(h, s) == h.plugins[h.states[s].plugins["registers"]].value

ArchNames(r) == { sim_states[t].arch : t \in {r.recv} \cup Range(r.others) }

\* C24: a merge whose participants, the receiver included, do not all have
\* one architecture name fails with a merge error, also when the others
\* agree with each other and only the receiver differs.
C24_MergeArchMismatch ==
    (ret.op = "merge" /\ ret.err # "ValueError" /\ Cardinality(ArchNames(ret)) > 1)
        => ret.err = "SimMergeError"

\* the merge flags a boolean mentions
RECURSIVE FlagsOf(_)
FlagsOf(e) ==
    IF e.kind = "eq" THEN {e.var}
    ELSE UNION { FlagsOf(e.terms[i]) : i \in 1..Len(e.terms) }

\* the merge flags in use: in the constraints of a solver or in the
\* conditions the last merge returned
FlagsInUse ==
    UNION { UNION { FlagsOf(plugin_objs[p].constraints[i]) :
                      i \in 1..Len(plugin_objs[p].constraints) } :
              p \in 1..Len(plugin_objs) }
    \cup UNION { FlagsOf(ret.conditions[i]) : i \in 1..Len(ret.conditions) }

\* the last call was a merge that was given no merge conditions
MergedUnconditioned(r) == r.op = "merge" /\ r.name # "explicit"

\* C25: a merge that is given no merge conditions and returns makes one new
\* merge flag, which no earlier merge made and nothing mentions yet, and
\* returns len(others) + 1 conditions, the i-th of them flag == i.
C25_FreshDiscriminant ==
    [][(MergedUnconditioned(ret') /\ ret'.err = "" /\ ops' = ops + 1) =>
        /\ merge_counter' = merge_counter + 1
        /\ merge_counter \notin FlagsInUse
        /\ \A f \in FlagsInUse : f < merge_counter
        /\ Len(ret'.conditions) = Len(ret'.others) + 1
        /\ \A i \in 1..Len(ret'.conditions) :
              ret'.conditions[i] = FlagEq(merge_counter, i - 1)
    ]_vars

\* a second merge, of three states, returned three conditions on a flag of
\* its own
C25_Witness ==
    /\ ops = 2 /\ MergedUnconditioned(ret) /\ ret.err = ""
    /\ Len(ret.others) = 2 /\ Len(ret.conditions) = 3
    /\ ret.conditions[3] = FlagEq(1, 2)
    /\ 0 \in FlagsInUse

\* what state.satisfiable() answers
IsSatisfiable(h, s) == Satisfiable(h, s, << >>).result

\* the merged state holds the disjunction of the conditions as the last
\* constraint of its solver, if it tracks constraints
ConstrainedWith(h, s, conditions) ==
    "TRACK_CONSTRAINTS" \in h.states[s].options =>
        LET cs == ConstraintsOf(h, s)
        IN  Len(cs) > 0 /\ cs[Len(cs)] = BoolOr(conditions)

\* what C26 says of a merge from the state before to the state after
MergeTotality(r, before, after) ==
    /\ ConstrainedWith(after, r.value, r.conditions)
    /\ Sat(<< BoolOr(r.conditions) >>, after.merge_counter)
    /\ (\E t \in {r.recv} \cup Range(r.others) : IsSatisfiable(before, t))
          => IsSatisfiable(after, r.value)

MergedSet(r) ==
    (PluginKeys(Heap, r.recv) \cup {"solver_engine"}
        \cup UNION { PluginKeys(Heap, t) : t \in Range(r.others) })
    \cap (IF r.name = "whitelist" THEN SomePlugins ELSE PluginNames)

\* the classes of the instances the participants have under a name
ClassesOf(r, n) ==
    { plugin_objs[sim_states[t].plugins[n]].class :
        t \in { u \in {r.recv} \cup Range(r.others) : HasPlugin(Heap, u, n) } }

\* what C27 says of a merge step
PluginClassesMerged ==
    LET r == ret'
        m == r.value
    IN  /\ (\E n \in MergedSet(r) : Cardinality(ClassesOf(r, n)) > 1) =>
              (r.err = "SimMergeError" /\ m = 0)
        /\ r.err = "" =>
              \A n \in MergedSet(r) :
                 LET mine == sim_states'[m].plugins[n]
                     theirs == [i \in 1..Len(r.others) |->
                                   sim_states'[r.others[i]].plugins[n]]
                 IN  /\ mine # 0
                     /\ \A i \in 1..Len(theirs) :
                           /\ theirs[i] # 0
                           /\ plugin_objs'[theirs[i]].class = plugin_objs'[mine].class
                           /\ plugin_objs'[theirs[i]].state = r.others[i]
                           /\ HasPlugin(Heap, r.others[i], n) =>
                                 theirs[i] = sim_states[r.others[i]].plugins[n]
                           /\ ~HasPlugin(Heap, r.others[i], n) =>
                                 theirs[i] > Len(plugin_objs)
                     /\ Len(plugin_objs'[mine].merges) = 1
                     /\ plugin_objs'[mine].merges[1].others = theirs

\* C27: a merge over a plugin name that the participants have instances of
\* two classes of raises a merge error and returns no merged state; a merge
\* that returns has given every participant that lacked a plugin of the
\* merged set a new instance of the one class the others have, and has
\* called the merge of each plugin of the merged state once, with one
\* instance for each of the other states.
C27_PluginClasses ==
    [][(ret'.op = "merge" /\ ret'.err # "ValueError" /\ ops' = ops + 1) =>
            PluginClassesMerged]_vars

\* the participants of a call: the receiver and the other states
Participants(r) == {r.recv} \cup Range(r.others)

\* no plugin's widen was called in the step
NoWidenCalled ==
    \A p \in 1..Len(plugin_objs') :
        plugin_objs'[p].widens = IF p <= Len(plugin_objs) THEN plugin_objs[p].widens
                                 ELSE << >>

\* C28: a widen whose participants, the receiver included, do not all have
\* the same set of plugin names and the same architecture fails with a merge
\* error, and no plugin's widen has been called.
C28_WidenParticipants ==
    [][(/\ ret'.op = "widen" /\ ops' = ops + 1
        /\ \/ Cardinality({ PluginKeys(Heap, t) : t \in Participants(ret') }) > 1
           \/ Cardinality({ sim_states[t].arch : t \in Participants(ret') }) > 1) =>
            (ret'.err = "SimMergeError" /\ NoWidenCalled)]_vars

\* the receiver of the step is what it was: its fields, its plugin
\* instances and what they hold
ReceiverUnmodified ==
    LET s == ret'.recv
    IN  /\ sim_states'[s] = sim_states[s]
        /\ View(Heap', s) = View(Heap, s)
        /\ \A n \in PluginNames :
              HasPlugin(Heap, s, n) =>
                 plugin_objs'[sim_states[s].plugins[n]] = plugin_objs[sim_states[s].plugins[n]]

\* what C29 says of a widen step that returned
WidenedPlugins ==
    LET r == ret'
        w == r.value
        widened == { n \in PluginKeys(Heap, r.recv) : n \notin {"solver_engine", "unicorn"} }
        log(n) == plugin_objs'[sim_states'[w].plugins[n]].widens
    IN  /\ \A n \in PluginKeys(Heap, r.recv) :
              /\ sim_states'[w].plugins[n] > Len(plugin_objs)
              /\ n \in {"solver_engine", "unicorn"} => log(n) = << >>
              /\ n \in widened =>
                    /\ Len(log(n)) = 1
                    /\ log(n)[1].others = [i \in 1..Len(r.others) |->
                                              sim_states[r.others[i]].plugins[n]]
        /\ PluginKeys(Heap', w) = PluginKeys(Heap, r.recv)
        /\ \A p \in 1..Len(plugin_objs) : plugin_objs'[p].widens = plugin_objs[p].widens
        /\ r.changed <=> \E n \in widened : log(n)[1].returned

\* C29: widen does not call the widen of the solver plugin or of the unicorn
\* plugin; it calls the widen of every other plugin of the receiver once, on
\* the instance of the copy; it returns changed = true if and only if one of
\* these calls returned true; and the receiver is not modified.
C29_WidenPlugins ==
    [][(ret'.op = "widen" /\ ops' = ops + 1) =>
            /\ ReceiverUnmodified
            /\ ret'.err = "" => WidenedPlugins]_vars

\* a widen over states with solver, unicorn, globals and memory returned
\* changed = true: the memory's widen returned true, the globals' false
C29_Witness ==
    /\ ret.op = "widen" /\ ret.err = "" /\ ret.changed
    /\ {"solver_engine", "unicorn", "globals"} \subseteq PluginKeys(Heap, ret.recv)
    /\ plugin_objs[sim_states[ret.value].plugins["memory"]].widens[1].returned
    /\ ~plugin_objs[sim_states[ret.value].plugins["globals"]].widens[1].returned
    /\ plugin_objs[sim_states[ret.value].plugins["unicorn"]].widens = << >>

\* the receiver of the step is inside a with_condition scope
InScope == ret'.recv # 0 /\ sim_states[ret'.recv].global_condition # << >>

\* the step made no state
NoNewState == Len(sim_states') = Len(sim_states) /\ ret'.value = 0

\* the last step was a call that copies the state
Copies(r) == r.op \in {"copy", "merge", "widen", "exit_stmt"}

\* C23 as stated: copy() inside a with_condition scope raises a state error,
\* makes no state and leaves the receiver and its global condition as they
\* were, and so do merge, widen and the interpretation of an Exit statement.
C23_CopyInScope ==
    [][(Copies(ret') /\ ret'.err # "ValueError" /\ InScope /\ ops' = ops + 1) =>
            /\ ret'.err = "SimStateError"
            /\ NoNewState
            /\ ReceiverUnmodified]_vars

\* the other states of a merge or widen call pass the checks made of them
OthersAgree(r) ==
    /\ Cardinality({ sim_states[t].arch : t \in Range(r.others) }) = 1
    /\ r.op = "widen" => Cardinality({ PluginKeys(Heap, t) : t \in Range(r.others) }) = 1

\* C23, amended: copy() inside a with_condition scope raises a state error,
\* makes no state and leaves the receiver and its global condition as they
\* were.  merge, widen and an Exit statement inside such a scope fail too,
\* make no state and leave the global condition as it was; they raise the
\* state error once they come to copy the state, which merge and widen do
\* if the other states pass their checks; before that merge may have given
\* the receiver a solver and the Exit statement has written to its history.
C23_CopyInScopeAfterChecks ==
    [][(Copies(ret') /\ ret'.err # "ValueError" /\ InScope /\ ops' = ops + 1) =>
            /\ ret'.err # ""
            /\ NoNewState
            /\ sim_states'[ret'.recv].global_condition =
                   sim_states[ret'.recv].global_condition
            /\ ret'.op = "copy" => (ret'.err = "SimStateError" /\ ReceiverUnmodified)
            /\ ret'.op = "widen" => ReceiverUnmodified
            /\ (ret'.op = "exit_stmt" \/ OthersAgree(ret')) => ret'.err = "SimStateError"
            /\ \A n \in PluginNames \ {"solver_engine", "history"} :
                   sim_states'[ret'.recv].plugins[n] = sim_states[ret'.recv].plugins[n]
    ]_vars

\* a merge inside a with_condition scope raised the state error after it had
\* given the receiver a solver
C23_Witness ==
    /\ ret.op = "merge" /\ ret.err = "SimStateError"
    /\ sim_states[ret.recv].global_condition # << >>
    /\ Len(sim_states) = 3
    /\ plugin_objs[sim_states[ret.recv].plugins["solver_engine"]].constraints = << >>
    /\ merge_counter > 0

\* the condition a scope had found when it made the condition given
OuterCondition(cond) ==
    IF cond[1].kind = "and" THEN << cond[1].terms[1] >> ELSE << >>

\* C31: entering a with_condition(c) scope makes the global condition c if
\* none was active and the conjunction of the active one and c otherwise;
\* leaving the scope, at the end of its block or by an exception, makes the
\* global condition the one that was active when the scope was entered, at
\* every depth of nesting; nothing else changes it.
C31_WithCondition ==
    [][LET old == sim_states[1].global_condition
           new == sim_states'[1].global_condition
       IN  /\ (ret'.op = "with_enter" /\ ops' = ops + 1) =>
                 new = IF old = << >> THEN << BoolSym(ret'.value) >>
                       ELSE << BoolAnd(<< old[1], BoolSym(ret'.value) >>) >>
           /\ (ret'.op = "with_exit" /\ ops' = ops + 1) =>
                 new = OuterCondition(old)
           /\ (ret'.op = "scoped_add" /\ ops' = ops + 1) => new = old
           /\ (ret.conditions = << >>) <=> (old = << >>)
    ]_vars

\* the block of a scope nested in two others raised, and the condition is
\* that of the two outer scopes
C31_Witness ==
    /\ ret.op = "with_exit" /\ ret.err = "Exception"
    /\ Len(ret.conditions) = 2
    /\ sim_states[1].global_condition = << BoolAnd(<< BoolSym(0), BoolSym(1) >>) >>

\* the plugin instance is as its default class makes it, but for the
\* constraint that merge adds to the solver in the end
FreshDefault(h, p, n, conditions) ==
    \E cs \in { << >>, << MergedConstraint(conditions) >> } :
        PluginView(h, p) = << DefaultClass(n), cs, 0, [k \in Keys |-> << >>] >>

\* C32: a merge that is given a plugin whitelist calls the merge of the
\* plugins in the whitelist only, and every plugin of the merged state that
\* is not in the whitelist is a new default instance, not a copy of the
\* plugin of the receiver.
C32_WhitelistedMerge ==
    [][(ret'.op = "merge" /\ ret'.name = "whitelist" /\ ret'.err = ""
            /\ ops' = ops + 1) =>
        \A n \in PluginKeys(Heap', ret'.value) \ SomePlugins :
            LET p == sim_states'[ret'.value].plugins[n]
            IN  /\ plugin_objs'[p].merges = << >>
                /\ n \in Defaultable => FreshDefault(Heap', p, n, ret'.conditions)
    ]_vars

\* the first of the instances that holds the key, or 0
RECURSIVE FirstHolder(_, _, _)
FirstHolder(theirs, k, i) ==
    IF i > Len(theirs) THEN 0
    ELSE IF plugin_objs'[theirs[i]].backer[k] # 0 THEN theirs[i]
    ELSE FirstHolder(theirs, k, i + 1)

\* C36: the merge of the globals adds to the receiver every key that one of
\* the others holds and it lacks, with the value of the first other that
\* holds it, leaves every key it holds as it is, and returns true if and
\* only if it added a key.
C36_GlobalsMerge ==
    [][(ret'.op = "merge" /\ ret'.err = "" /\ ops' = ops + 1
          /\ HasPlugin(Heap', ret'.value, "globals")) =>
        LET g == plugin_objs'[sim_states'[ret'.value].plugins["globals"]]
            s == ret'.recv
            had(k) == /\ HasPlugin(Heap, s, "globals")
                      /\ plugin_objs[sim_states[s].plugins["globals"]].backer[k] # 0
        IN  (g.class = "SimStateGlobals" /\ g.merges # << >>) =>
              /\ \A k \in Keys :
                    IF had(k)
                    THEN cells'[g.backer[k]] =
                            cells[plugin_objs[sim_states[s].plugins["globals"]].backer[k]]
                    ELSE LET f == FirstHolder(g.merges[1].others, k, 1)
                         IN  g.backer[k] = IF f = 0 THEN 0 ELSE plugin_objs'[f].backer[k]
              /\ g.merges[1].returned <=> \E k \in Keys : ~had(k) /\ g.backer[k] # 0
    ]_vars

\* C37: in the abstract-solver and the non-symbolic mode, a state obtained
\* by copy() from a state whose cached flag is false, be it the copy itself,
\* the successor of an Exit statement, or the result of a merge or a widen,
\* is not satisfiable.
C37_UnsatSurvivesCopy ==
    [][(/\ Copies(ret') /\ ret'.err = "" /\ ops' = ops + 1
        /\ Approximate(sim_states[ret'.recv])
        /\ ~sim_states[ret'.recv].satisfiable) =>
            ~IsSatisfiable(Heap', ret'.value)]_vars

\* the plugin instance is as the constructor of its class leaves it
DefaultConstructed(p) ==
    /\ p.constraints = << >> /\ p.value = 0 /\ p.parent = 0
    /\ \A k \in Keys : p.backer[k] = 0
    /\ p.merges = << >> /\ p.widens = << >>

\* C40: after a merge has returned or raised, every plugin instance that
\* existed before the call holds what it held, and a state that existed
\* before the call differs at most in plugins it lacked, for which it now
\* has default-constructed instances.
C40_MergeFrame ==
    [][(ret'.op = "merge" /\ ops' = ops + 1) =>
        /\ \A p \in 1..Len(plugin_objs) : plugin_objs'[p] = plugin_objs[p]
        /\ \A c \in 1..Len(cells) : cells'[c] = cells[c]
        /\ \A t \in 1..Len(sim_states) :
              /\ [sim_states'[t] EXCEPT !.plugins = NoPlugins] =
                     [sim_states[t] EXCEPT !.plugins = NoPlugins]
              /\ \A n \in PluginNames :
                    \/ sim_states'[t].plugins[n] = sim_states[t].plugins[n]
                    \/ /\ sim_states[t].plugins[n] = 0
                       /\ t \in Participants(ret')
                       /\ sim_states'[t].plugins[n] > Len(plugin_objs)
                       /\ plugin_objs'[sim_states'[t].plugins[n]].state = t
                       /\ DefaultConstructed(plugin_objs'[sim_states'[t].plugins[n]])
    ]_vars

\* a merge returned after it had given another state the globals it lacked
\* and the merged state the key of the receiver's globals
C40_Witness ==
    /\ ret.op = "merge" /\ ret.err = "" /\ ret.others = << 2 >> /\ ops = 1
    /\ HasPlugin(Heap, 2, "globals")
    /\ sim_states[2].plugins["globals"] > sim_states[ret.value].plugins["globals"]
    /\ DefaultConstructed(plugin_objs[sim_states[2].plugins["globals"]])
    /\ plugin_objs[sim_states[ret.value].plugins["globals"]].backer["loop_ctrs"] # 0

\* the key of the last lift call with the size a stop point cuts the block
\* the lifter first returned down to
TruncatedKey ==
    CacheKey(last.args, last.norm,
             FirstStoppoint(stop_points, Lifted(last.lifts[1])) - last.norm.addr)

\* a lift call that returned a block it had lifted a second time, at the
\* size a stop point truncated the first one to
Truncated == IsLift(last) /\ last.ok /\ Len(last.lifts) = 2

\* C34: after a successful lift with the cache enabled in which a stop point
\* truncated the block to size s', the cache maps the truncated key (address,
\* bytes, s', instruction cap, thumb, optimisation level) to the block the
\* call returned.
C34_TruncatedKeyCached ==
    (use_cache /\ Truncated) =>
        /\ CacheHas(block_cache, TruncatedKey)
        /\ CacheValue(block_cache, TruncatedKey) = last.irsb

\* the block is in the cache, under the key of the first lookup
C34_StoredUnderLookupKey ==
    (use_cache /\ Truncated) =>
        /\ CacheHas(block_cache, KeyOf(last))
        /\ CacheValue(block_cache, KeyOf(last)) = last.irsb

-----------------------------------------------------------------------------
(* Properties of Instruction.parse *)

\* an Instruction was constructed on a stream that had as many bits left as
\* its format is long
Parsed ==
    /\ instr.bin_format # << >>
    /\ instr.pos + Len(instr.bin_format) <= Len(bitstrm.bits)

\* the next len(bin_format) bits of the stream, as the stream held them when
\* the Instruction was constructed
NextBits == SubSeq(bitstrm.bits, instr.pos + 1, instr.pos + Len(instr.bin_format))

\* the same bits with the order of their bytes reversed
ByteReversed(bits) ==
    [i \in 1..Len(bits) |-> bits[Len(bits) - 8 * ((i - 1) \div 8 + 1) + ((i - 1) % 8) + 1]]

\* the instruction word as the manual writes it
InstructionWord ==
    IF instruction_endness = "Iend_LE" THEN ByteReversed(NextBits) ELSE NextBits

\* every "0" and "1" of the format is the bit at its place
Agrees(bin_format, bits) ==
    \A i \in 1..Len(bin_format) : bin_format[i] \in BitChars => bits[i] = bin_format[i]

\* the places of the letter c in the format, and the k-th of them
PlacesOf(bin_format, c) == { i \in 1..Len(bin_format) : bin_format[i] = c }
Place(bin_format, c, k) ==
    CHOOSE i \in PlacesOf(bin_format, c) :
        Cardinality({ j \in PlacesOf(bin_format, c) : j <= i }) = k

\* for each letter of the format, the bits at the letter's places, in order
Arguments(bin_format, bits) ==
    [c \in { bin_format[i] : i \in 1..Len(bin_format) } \ BitChars |->
        [k \in 1..Cardinality(PlacesOf(bin_format, c)) |-> bits[Place(bin_format, c, k)]]]

\* parse matched the format against the bits: it returned the arguments and
\* used the bits up, or raised ParseError and left the stream where it was
MatchedAgainst(bits) ==
    IF Agrees(instr.bin_format, bits)
    THEN /\ instr.err = ""
         /\ instr.data = Arguments(instr.bin_format, bits)
         /\ bitstrm.pos = instr.pos + Len(instr.bin_format)
    ELSE /\ instr.err = "ParseError"
         /\ bitstrm.pos = instr.pos

\* C33 as stated: parse matches the next len(bin_format) bits of the stream
\* against the bit format; when every fixed bit agrees it returns, for each
\* letter, the bits at the letter's positions in order and advances the
\* stream by len(bin_format) bits, and when a fixed bit disagrees it raises
\* ParseError and leaves the stream position unchanged.
C33_ParseMatchesStream == Parsed => MatchedAgainst(NextBits)

\* the format is as long as bitstring can read it: whole hexadecimal digits,
\* and whole bytes for a little-endian arch
WholeDigits ==
    /\ Len(instr.bin_format) % 4 = 0
    /\ instruction_endness = "Iend_LE" => Len(instr.bin_format) % 8 = 0

\* C33: for a format of whole hexadecimal digits (whole bytes when the
\* instruction endness is Iend_LE), parse matches the format against the
\* next len(bin_format) bits of the stream, taken with their bytes in
\* reverse order when the instruction endness is Iend_LE: when every fixed
\* bit agrees it returns, for each letter, the bits at the letter's positions
\* in order and advances the stream by len(bin_format) bits, and when a fixed
\* bit disagrees it raises ParseError; whenever parse raises, the stream
\* position is unchanged.
C33_ParseMatchesInstructionWord ==
    /\ (Parsed /\ WholeDigits) => MatchedAgainst(InstructionWord)
    /\ instr.err # "" => bitstrm.pos = instr.pos

\* a little-endian arch has parsed the two bytes 0x69 0x2d with the format of
\* the documentation: r=1101, d=0110, f=10, m=01
C33_Witness ==
    /\ instruction_endness = "Iend_LE"
    /\ instr.bin_format = DocFormat
    /\ instr.err = ""
    /\ NextBits # InstructionWord
    /\ instr.data["r"] = << "1", "1", "0", "1" >>
    /\ instr.data["d"] = << "0", "1", "1", "0" >>
    /\ instr.data["f"] = << "1", "0" >>
    /\ instr.data["m"] = << "0", "1" >>
    /\ bitstrm.pos = instr.pos + 16

\* the example of the documentation on a big-endian arch
C33_WitnessBigEndian ==
    /\ instruction_endness = "Iend_BE"
    /\ instr.bin_format = DocFormat
    /\ instr.err = ""
    /\ instr.data["r"] = << "1", "1", "0", "1" >>
    /\ instr.data["m"] = << "0", "1" >>

=============================================================================
